---- MODULE Spec2Model ----
(***************************************************************************)
(* A model of the controller side of the Unity bridge                      *)
(* (skill/src/claude_unity_bridge/cli.py): the command channel             *)
(* (write_command), the response poller (wait_for_response), the janitor   *)
(* (the cleanup functions) and the entry point (execute_command), with the *)
(* shared directory they act on and the peer that answers.                 *)
(*                                                                         *)
(* Time is counted in ticks of 1/640 s, the coarsest unit in which every   *)
(* value of the backoff schedule 0.1 * 1.5^k (k = 0..5) is an integer.     *)
(***************************************************************************)
EXTENDS Integers, Sequences, FiniteSets, TLC

VARIABLES
    \* ---- identifier validation on raw text
    idArg,        \* the text handed to _validate_command_id
    vres,         \* "none" | "ok" | "invalid": what the validation did
    \* ---- the installed skill
    target_dir,   \* what the path ~/.claude/skills/unity-bridge is
    us,           \* position, argument and return of uninstall_skill
    \* ---- the shared directory
    now,          \* wall clock, in ticks
    dirKind,      \* what the path .unity-bridge is
    dirMode,      \* its permission bits when it is a directory
    gitignore,    \* state of <cwd>/.gitignore
    files,        \* command.json and command.tmp, by name
    responses,    \* response-<id>.json, by identifier
    \* ---- the controllers (one record field per local variable)
    pc,           \* position of each controller
    args,         \* arguments of the running call
    loc,          \* locals of the running call
    result,       \* how the last call ended
    calls,        \* calls made so far by each controller
    \* ---- the peer and history (read by the properties only)
    peerSeen,     \* what the peer last read from command.json
    hist          \* facts about the run so far

valVars  == <<idArg, vres, target_dir, us>>
fsVars   == <<now, dirKind, dirMode, gitignore, files, responses>>
ctlVars  == <<pc, args, loc, result, calls>>
obsVars  == <<peerSeen, hist>>
vars     == <<valVars, fsVars, ctlVars, obsVars>>

-----------------------------------------------------------------------------
(* Bounds of the model *)

MaxExtra == 2        \* characters added to an identifier at either end
MaxCalls == 2        \* calls one controller makes in a run
MaxPeerOps == 2      \* acts of the environment during one call
MaxExecPeerOps == 1  \* acts of the environment during one execute_command
MaxLongTimeout == 3  \* longest timeout, in seconds, of a call that backs off
MaxTimeout == 1      \* longest timeout, in seconds, a caller passes

-----------------------------------------------------------------------------
(* Program constants, in ticks *)

TicksPerSecond == 640
MIN_SLEEP == TicksPerSecond \div 10
MAX_SLEEP == TicksPerSecond
ReadGrace == TicksPerSecond \div 10          \* time.sleep(0.1)
RetryGrace == TicksPerSecond \div 5          \* time.sleep(0.2)
SleepMultiplied(t) == (t * 3) \div 2         \* t * SLEEP_MULTIPLIER
Min(a, b) == IF a <= b THEN a ELSE b

EXIT_SUCCESS == 0
EXIT_ERROR == 1
EXIT_TIMEOUT == 2

-----------------------------------------------------------------------------
(* Identifier text.  A text is a sequence of one-character strings.        *)

Digits == {"0", "1", "2", "3", "4", "5", "6", "7", "8", "9"}
HexLower == {"a", "b", "c", "d", "e", "f"}
HexUpper == {"A", "B", "C", "D", "E", "F"}
HexChars == Digits \cup HexLower \cup HexUpper      \* [a-fA-F0-9]

HexRun(s, from, n) == \A i \in from..(from + n - 1) : s[i] \in HexChars

\* The 36 characters 8-4-4-4-12 of the pattern, matched from position 1.
UuidBody(s) ==
    /\ Len(s) >= 36
    /\ HexRun(s, 1, 8)   /\ s[9] = "-"
    /\ HexRun(s, 10, 4)  /\ s[14] = "-"
    /\ HexRun(s, 15, 4)  /\ s[19] = "-"
    /\ HexRun(s, 20, 4)  /\ s[24] = "-"
    /\ HexRun(s, 25, 12)

\* Python's "$" (no re.MULTILINE) matches at the end of the text and also
\* just before a line break that ends the text.
DollarAt(s, k) == k = Len(s) \/ (k = Len(s) - 1 /\ s[Len(s)] = "\n")

\* UUID_PATTERN.match(s): "^" body "$".
UUID_PATTERN(s) == UuidBody(s) /\ DollarAt(s, 36)

\* _validate_command_id(s): TRUE when it returns, FALSE when it raises
\* UnityCommandError("Invalid command ID format").
_validate_command_id(s) == UUID_PATTERN(s)

\* The identifier grammar of the data model: exactly 36 characters 8-4-4-4-12.
IsCanonicalUuid(s) == Len(s) = 36 /\ UuidBody(s)

\* str(uuid.uuid4()): 32 lower-case hex digits drawn at random, the version
\* nibble 4 and the variant nibble 8..b forced, hyphens after 8, 12, 16, 20.
HexDigit == <<"0", "1", "2", "3", "4", "5", "6", "7",
              "8", "9", "a", "b", "c", "d", "e", "f">>
Nibble(seed, i) ==
    IF i = 13 THEN 4
    ELSE IF i = 17 THEN 8 + ((seed * i) % 4)
    ELSE (seed * (i + 3) + i * i) % 16
Uuid4Hex(seed) == [i \in 1..32 |-> HexDigit[Nibble(seed, i) + 1]]
Uuid4Text(seed) ==
    LET h == Uuid4Hex(seed)
    IN  SubSeq(h, 1, 8) \o <<"-">> \o SubSeq(h, 9, 12) \o <<"-">> \o
        SubSeq(h, 13, 16) \o <<"-">> \o SubSeq(h, 17, 20) \o <<"-">> \o
        SubSeq(h, 21, 32)

Upper(ch) ==
    CASE ch = "a" -> "A" [] ch = "b" -> "B" [] ch = "c" -> "C"
      [] ch = "d" -> "D" [] ch = "e" -> "E" [] ch = "f" -> "F"
      [] OTHER -> ch
UpperText(s) == [i \in 1..Len(s) |-> Upper(s[i])]

-----------------------------------------------------------------------------
(* Inputs for the validation: identifiers and their near misses *)

ExtraChars == {"a", "0", "g", "-", "/", ".", " ", "\n"}
Extras == UNION {[1..n -> ExtraChars] : n \in 1..MaxExtra}
BaseTexts == {Uuid4Text(1), Uuid4Text(2), UpperText(Uuid4Text(3))}
ReplaceAt(s, i, ch) == [s EXCEPT ![i] = ch]
IdInputs ==
    UNION {
        {b} \cup
        {b \o e : e \in Extras} \cup
        {e \o b : e \in Extras} \cup
        {SubSeq(b, 1, k) : k \in 0..35} \cup
        {SubSeq(b, k, 36) : k \in 2..36} \cup
        {ReplaceAt(b, i, ch) : i \in 1..36, ch \in ExtraChars}
        : b \in BaseTexts }

-----------------------------------------------------------------------------
(* Identifiers as the program passes them around.  A token stands for one  *)
(* text; IdText gives the text, which is what the validation looks at.     *)

Uuid4Tokens == {"u1", "u2", "u3"}            \* what uuid.uuid4() may draw
BadTokens == {"empty", "u1_newline", "u1_cut", "dotdot_u1"}
IdTokens == Uuid4Tokens \cup BadTokens \cup {"u0"}   \* u0: an older command
IdText(tok) ==
    CASE tok = "u0" -> Uuid4Text(7)
      [] tok = "u1" -> Uuid4Text(1)
      [] tok = "u2" -> Uuid4Text(2)
      [] tok = "u3" -> Uuid4Text(3)
      [] tok = "empty" -> << >>
      [] tok = "u1_newline" -> Uuid4Text(1) \o <<"\n">>
      [] tok = "u1_cut" -> SubSeq(Uuid4Text(1), 1, 35)
      [] tok = "dotdot_u1" -> <<".", ".", "/">> \o Uuid4Text(1)

-----------------------------------------------------------------------------
(* The shared directory *)

Ctl == {"c1"}                       \* the controller of a run
Controllers == {"c1", "c2"}         \* the processes that may run the controller

DirKinds == {"absent", "dir", "file", "symlink_dir", "symlink_file",
             "symlink_dangling"}
\* Path.exists() follows links; Path.is_symlink() does not.
PathExists(k) == k \in {"dir", "file", "symlink_dir", "symlink_file"}
PathIsSymlink(k) == k \in {"symlink_dir", "symlink_file", "symlink_dangling"}
PathIsDir(k) == k \in {"dir", "symlink_dir"}

CommandPath == "command.json"                 \* UNITY_DIR / "command.json"
temp_file_in_place == CommandPath             \* the command written in place
temp_file == "command.tmp"                    \* command_file.with_suffix(".tmp")
Paths == {"command.json", "command.tmp"}

NoCmd == [id |-> "empty", action |-> "", params |-> ""]
NoIno == <<"", 0>>
AbsentFile == [st |-> "absent", data |-> NoCmd, mtime |-> 0, mode |-> "", ino |-> NoIno]
cmdFile == files[CommandPath]
tmpFile == files["command.tmp"]

GitignoreKinds == {"missing", "has_rule", "no_rule", "unreadable"}

-----------------------------------------------------------------------------
(* Controller state *)

NoResp == [st |-> "absent", parse |-> "", id |-> "empty", status |-> "", mtime |-> 0,
           progress |-> ""]
NoResult == [kind |-> "none", exc |-> "", msg |-> "", cause |-> "",
             id |-> "empty", resp |-> NoResp]
ArgsInit == [action |-> "", params |-> "", command_id |-> "empty",
             timeout |-> 0, cleanup |-> FALSE, verbose |-> FALSE,
             max_age_hours |-> 1,
             argv |-> [command |-> "", timeout |-> << >>, limit |-> << >>]]
LocInit == [top |-> "", command_id |-> "empty", dir_existed |-> FALSE,
            fd |-> NoIno, err |-> "", notice |-> "",
            start |-> 0, sleep_time |-> 0, attempts |-> 0, wakeAt |-> 0,
            parsed |-> NoResp, reads |-> 0, retry |-> FALSE,
            sleeps |-> 0, parsedAt |-> 0, iterReads |-> 0, seen |-> "", started |-> FALSE, dir_exists |-> FALSE,
            ec_command_id |-> "empty",
            caller |-> "", exit |-> 0 - 1, escaped |-> ""]
\* History, read by the properties only: the files and the directory when the
\* call began, the call during which the peer last read command.json, what the
\* environment did during the call, and which accesses the call made to the
\* response path built from its identifier.
HistInit == [filesAtCall |-> [p \in Paths |-> AbsentFile],
             dirAtCall |-> "absent", modeAtCall |-> "", seenInCall |-> 0,
             respAtCall |-> NoResp, envOps |-> 0, writes |-> 0,
             wroteLate |-> FALSE, readsAtWrite |-> 0, unlinkFailed |-> FALSE,
             dirChanged |-> FALSE, removed |-> FALSE, touched |-> {},
             wroteAfterCleanup |-> FALSE, interrupted |-> "",
             wroteOther |-> FALSE, swept |-> << >>,
             responsesAtCall |-> [t \in IdTokens |-> NoResp],
             unlinkErrors |-> {}, issued |-> << >>, readOf |-> {},
             late |-> {}, published |-> {}]

Actions == {"compile", "run-tests"}
\* params as main builds them, and one json.dumps cannot serialise
ParamSets == {"{}", "{testMode: EditMode}", "unserializable"}

Returned(c, r) ==
    /\ result' = [result EXCEPT ![c] = r]
    /\ pc' = [pc EXCEPT ![c] = "done"]
Raised(c, exc, msg) ==
    Returned(c, [NoResult EXCEPT !.kind = "raise", !.exc = exc, !.msg = msg])
Goto(c, label) == pc' = [pc EXCEPT ![c] = label]
\* the call was made by execute_command, not by the caller itself
InExec(c) == loc[c].top = "execute_command"

-----------------------------------------------------------------------------
(* write_command, one action per statement that touches the file system *)

WcPcs == {"wc_uuid", "wc_symlink", "wc_mkdir", "wc_gitignore", "wc_open",
          "wc_write", "wc_chmod", "wc_replace", "wc_except", "wc_return"}

\* command = {"id": command_id, "action": action, "params": params}
Command_other_id(c) ==
    [id |-> "u0", action |-> args[c].action, params |-> args[c].params]
Command(c) ==
    [id |-> loc[c].command_id, action |-> args[c].action, params |-> args[c].params]

\* A caller enters write_command(action, params).
WcCall(c) ==
    /\ pc[c] \in {"idle", "done"}
    /\ calls[c] < MaxCalls
    /\ \E a \in Actions, p \in ParamSets :
          args' = [args EXCEPT ![c] = [ArgsInit EXCEPT !.action = a, !.params = p]]
    /\ loc' = [loc EXCEPT ![c] = [LocInit EXCEPT !.top = "write_command"]]
    /\ result' = [result EXCEPT ![c] = NoResult]
    /\ calls' = [calls EXCEPT ![c] = @ + 1]
    /\ hist' = [hist EXCEPT !.filesAtCall = files, !.dirAtCall = dirKind,
                            !.modeAtCall = dirMode, !.seenInCall = 0]
    /\ Goto(c, "wc_uuid")
    /\ UNCHANGED <<valVars, fsVars, peerSeen>>

\* A process enters write_command(action, params) while another may be
\* inside it.
WcCallTwo(c) ==
    /\ pc[c] = "idle"
    /\ args' = [args EXCEPT ![c] = [ArgsInit EXCEPT !.action = "compile",
                                                    !.params = "{}"]]
    /\ loc' = [loc EXCEPT ![c] = [LocInit EXCEPT !.top = "write_command"]]
    /\ result' = [result EXCEPT ![c] = NoResult]
    /\ calls' = [calls EXCEPT ![c] = @ + 1]
    /\ Goto(c, "wc_uuid")
    /\ UNCHANGED <<valVars, fsVars, obsVars>>

\* uuid.uuid4() of the n-th call: the n-th draw of the generator, whose
\* draws differ from one another
Uuid4Draws == <<"u1", "u2", "u3">>
uuid4(n) == Uuid4Draws[((n - 1) % Len(Uuid4Draws)) + 1]

\* the draws of the generator of each process: those of two processes
\* differ as long as they make no more than Len(Uuid4Draws) calls together
uuid4_of(c, n) ==
    IF c = "c1" THEN uuid4(n)
    ELSE Uuid4Draws[Len(Uuid4Draws) - ((n - 1) % Len(Uuid4Draws))]

\* History: the identifiers of the complete commands command.json has come
\* to hold.
Publishes(after) ==
    hist' = [hist EXCEPT !.published =
                IF after[CommandPath] # files[CommandPath]
                   /\ after[CommandPath].st = "complete"
                THEN @ \cup {after[CommandPath].data.id} ELSE @]

\* command_id = str(uuid.uuid4())
WcUuid_from_the_command(c) ==
    /\ pc[c] = "wc_uuid"
    /\ loc' = [loc EXCEPT ![c].command_id =
                  IF args[c].action = "compile" THEN "u1" ELSE "u2"]
    /\ Goto(c, "wc_symlink")
    /\ UNCHANGED <<valVars, fsVars, args, result, calls, obsVars>>
WcUuid(c) ==
    /\ pc[c] = "wc_uuid"
    /\ loc' = [loc EXCEPT ![c].command_id = uuid4_of(c, calls[c])]
    /\ Goto(c, "wc_symlink")
    /\ UNCHANGED <<valVars, fsVars, args, result, calls, obsVars>>

\* if UNITY_DIR.exists() and UNITY_DIR.is_symlink(): raise
WcSymlink(c) ==
    /\ pc[c] = "wc_symlink"
    /\ IF PathExists(dirKind) /\ PathIsSymlink(dirKind)
       THEN Raised(c, "UnityCommandError",
                   "Security error: .unity-bridge cannot be a symlink")
       ELSE Goto(c, "wc_mkdir") /\ UNCHANGED result
    /\ UNCHANGED <<valVars, fsVars, args, loc, calls, obsVars>>

\* dir_existed = UNITY_DIR.exists(); mkdir(parents=True, exist_ok=True);
\* os.chmod(UNITY_DIR, 0o700); any exception becomes the directory fault.
WcMkdir(c) ==
    /\ pc[c] = "wc_mkdir"
    /\ loc' = [loc EXCEPT ![c].dir_existed = PathExists(dirKind)]
    /\ \E mk \in BOOLEAN, ch \in BOOLEAN :
          LET made == IF dirKind = "absent" THEN mk ELSE PathIsDir(dirKind)
              kind1 == IF dirKind = "absent" /\ mk THEN "dir" ELSE dirKind
              mode1 == IF dirKind = "absent" /\ mk THEN "0755" ELSE dirMode
          IN  /\ dirKind' = kind1
              /\ dirMode' = IF made /\ ch THEN "0700" ELSE mode1
              /\ IF made /\ ch
                 THEN /\ Goto(c, IF PathExists(dirKind) THEN "wc_open"
                                 ELSE "wc_gitignore")
                      /\ UNCHANGED result
                 ELSE Raised(c, "UnityCommandError",
                             "Failed to create Unity directory")
    /\ UNCHANGED <<valVars, now, gitignore, files, responses, args, calls, obsVars>>

\* check_gitignore_and_notify(): the stream the notice is printed to, or
\* none when .gitignore could be read and contains ".unity-bridge"
check_gitignore_and_notify_when_readable ==
    IF gitignore = "no_rule" THEN "stderr" ELSE ""
check_gitignore_and_notify == IF gitignore = "has_rule" THEN "" ELSE "stderr"

\* if not dir_existed: check_gitignore_and_notify()
WcGitignore(c) ==
    /\ pc[c] = "wc_gitignore"
    /\ loc' = [loc EXCEPT ![c].notice = check_gitignore_and_notify]
    /\ Goto(c, "wc_open")
    /\ UNCHANGED <<valVars, fsVars, args, result, calls, obsVars>>

\* temp_file.write_text(json.dumps(command, indent=2)), first half:
\* json.dumps, then open(temp_file, "w"), which creates or truncates.
WcOpen(c) ==
    /\ pc[c] = "wc_open"
    /\ IF args[c].params = "unserializable"
       THEN /\ loc' = [loc EXCEPT ![c].err = "TypeError"]
            /\ Goto(c, "wc_except")
            /\ UNCHANGED files
       ELSE \E ok \in BOOLEAN :
              IF ok /\ PathIsDir(dirKind)
              THEN LET old == files[temp_file]
                       ino == IF old.st = "absent" THEN <<c, calls[c]>> ELSE old.ino
                   IN  /\ files' = [files EXCEPT ![temp_file] =
                              [st |-> "partial", data |-> NoCmd, mtime |-> now,
                               mode |-> IF old.st = "absent" THEN "0644" ELSE old.mode,
                               ino |-> ino]]
                       /\ loc' = [loc EXCEPT ![c].fd = ino]
                       /\ Goto(c, "wc_write")
              ELSE /\ loc' = [loc EXCEPT ![c].err = "OSError"]
                   /\ Goto(c, "wc_except")
                   /\ UNCHANGED files
    /\ UNCHANGED <<valVars, now, dirKind, dirMode, gitignore, responses,
                   args, result, calls, obsVars>>

\* second half of write_text: the data is written through the open file and
\* the file is closed.  The write lands in the file opened, whatever name it has.
WcWrite(c) ==
    /\ pc[c] = "wc_write"
    /\ \E ok \in BOOLEAN :
          IF ok
          THEN /\ files' = [p \in Paths |->
                     IF files[p].st # "absent" /\ files[p].ino = loc[c].fd
                     THEN [files[p] EXCEPT !.st = "complete", !.data = Command(c),
                                           !.mtime = now]
                     ELSE files[p]]
               /\ Goto(c, "wc_chmod")
               /\ UNCHANGED loc
          ELSE /\ loc' = [loc EXCEPT ![c].err = "OSError"]
               /\ Goto(c, "wc_except")
               /\ UNCHANGED files
    /\ Publishes(files')
    /\ UNCHANGED <<valVars, now, dirKind, dirMode, gitignore, responses,
                   args, result, calls, peerSeen>>

\* os.chmod(temp_file, 0o600)
WcChmod_keeps_mode(c) ==
    /\ pc[c] = "wc_chmod"
    /\ \E ok \in BOOLEAN :
          IF ok /\ files[temp_file].st # "absent"
          THEN /\ Goto(c, "wc_replace")
               /\ UNCHANGED <<loc, files>>
          ELSE /\ loc' = [loc EXCEPT ![c].err = "OSError"]
               /\ Goto(c, "wc_except")
               /\ UNCHANGED files
    /\ UNCHANGED <<valVars, now, dirKind, dirMode, gitignore, responses,
                   args, result, calls, obsVars>>
WcChmod(c) ==
    /\ pc[c] = "wc_chmod"
    /\ \E ok \in BOOLEAN :
          IF ok /\ files[temp_file].st # "absent"
          THEN /\ files' = [files EXCEPT ![temp_file].mode = "0600"]
               /\ Goto(c, "wc_replace")
               /\ UNCHANGED loc
          ELSE /\ loc' = [loc EXCEPT ![c].err = "OSError"]
               /\ Goto(c, "wc_except")
               /\ UNCHANGED files
    /\ UNCHANGED <<valVars, now, dirKind, dirMode, gitignore, responses,
                   args, result, calls, obsVars>>

\* temp_file.replace(command_file): one rename
WcReplace_returns_before_rename(c) ==
    /\ pc[c] = "wc_replace"
    /\ Goto(c, "wc_return")
    /\ UNCHANGED <<valVars, fsVars, args, loc, result, calls, obsVars>>
WcReplace(c) ==
    /\ pc[c] = "wc_replace"
    /\ \E ok \in BOOLEAN :
          IF ok /\ files[temp_file].st # "absent"
          THEN /\ files' = [p \in Paths |->
                     IF p = CommandPath THEN files[temp_file]
                     ELSE IF p = temp_file THEN AbsentFile ELSE files[p]]
               /\ Goto(c, "wc_return")
               /\ UNCHANGED loc
          ELSE /\ loc' = [loc EXCEPT ![c].err = "OSError"]
               /\ Goto(c, "wc_except")
               /\ UNCHANGED files
    /\ Publishes(files')
    /\ UNCHANGED <<valVars, now, dirKind, dirMode, gitignore, responses,
                   args, result, calls, peerSeen>>

\* UnityCommandError(f"Failed to write command file: {e}")
WriteFault(e) == [NoResult EXCEPT !.kind = "raise", !.exc = "UnityCommandError",
                                  !.msg = "Failed to write command file",
                                  !.cause = e]

\* except Exception: if temp_file.exists(): try unlink, ignoring failure;
\* raise UnityCommandError("Failed to write command file: ...")
WcExcept_keeps_temp(c) ==
    /\ pc[c] = "wc_except"
    /\ Returned(c, WriteFault(loc[c].err))
    /\ UNCHANGED <<valVars, fsVars, args, loc, calls, obsVars>>
WcExcept(c) ==
    /\ pc[c] = "wc_except"
    /\ \E ok \in BOOLEAN :
          /\ files' = IF ok /\ files[temp_file].st # "absent"
                      THEN [files EXCEPT ![temp_file] = AbsentFile]
                      ELSE files
          /\ hist' = [hist EXCEPT !.unlinkFailed =
                                     ~ok /\ files[temp_file].st # "absent"]
    /\ Returned(c, WriteFault(loc[c].err))
    /\ UNCHANGED <<valVars, now, dirKind, dirMode, gitignore, responses,
                   args, loc, calls, peerSeen>>

\* return command_id; in execute_command: command_id = write_command(...),
\* followed by wait_for_response(command_id, timeout, verbose)
WcReturn(c) ==
    /\ pc[c] = "wc_return"
    /\ IF InExec(c)
       THEN /\ loc' = [loc EXCEPT ![c].ec_command_id = loc[c].command_id]
            /\ Goto(c, "w_validate")
            /\ UNCHANGED result
       ELSE /\ Returned(c, [NoResult EXCEPT !.kind = "return",
                                            !.id = loc[c].command_id])
            /\ UNCHANGED loc
    /\ hist' = [hist EXCEPT !.issued = Append(@, loc[c].command_id)]
    /\ UNCHANGED <<valVars, fsVars, args, calls, peerSeen>>

write_command(c) ==
    \/ WcUuid(c) \/ WcSymlink(c) \/ WcMkdir(c) \/ WcGitignore(c) \/ WcOpen(c)
    \/ WcWrite(c) \/ WcChmod(c) \/ WcReplace(c) \/ WcExcept(c) \/ WcReturn(c)

-----------------------------------------------------------------------------
(* The peer, as far as the command file goes: it reads command.json.       *)

PeerReadCommand ==
    /\ peerSeen' = IF PathIsDir(dirKind) THEN cmdFile ELSE AbsentFile
    /\ hist' = [hist EXCEPT !.seenInCall =
                   IF pc["c1"] \in WcPcs THEN calls["c1"] ELSE 0]
    /\ peerSeen' # peerSeen \/ hist' # hist
    /\ UNCHANGED <<valVars, fsVars, ctlVars>>

-----------------------------------------------------------------------------
(* wait_for_response.  time.sleep(d) is a step that sets the wake-up time; *)
(* the statement after it runs once the clock has reached it.              *)

WaitPcs == {"w_validate", "w_loop", "w_exists", "w_read1", "w_read2",
            "w_running", "w_retry_running", "w_backoff"}

\* response_file = UNITY_DIR / f"response-{command_id}.json"
ResponseFile(c) == responses[loc[c].command_id]
ResponseExists(c) == PathIsDir(dirKind) /\ ResponseFile(c).st = "present"
Touch(c, op) == hist' = [hist EXCEPT !.touched = @ \cup {op},
                                     !.readOf = @ \cup {loc[c].command_id}]

Timeouts == 0..MaxTimeout
Deadline(c) == loc[c].start + args[c].timeout * TicksPerSecond

\* A caller enters wait_for_response(command_id, timeout).
WaitCallWith(c, ids, timeouts) ==
    /\ pc[c] = "idle"
    /\ \E id \in ids, t \in timeouts :
          /\ args' = [args EXCEPT ![c] =
                         [ArgsInit EXCEPT !.command_id = id, !.timeout = t]]
          /\ loc' = [loc EXCEPT ![c] =
                        [LocInit EXCEPT !.top = "wait_for_response",
                                        !.command_id = id]]
    /\ result' = [result EXCEPT ![c] = NoResult]
    /\ calls' = [calls EXCEPT ![c] = @ + 1]
    /\ hist' = [HistInit EXCEPT !.dirAtCall = dirKind,
                                !.dirChanged = FALSE]
    /\ Goto(c, "w_validate")
    /\ UNCHANGED <<valVars, fsVars, peerSeen>>

\* How wait_for_response ends.  Called by execute_command it is inside
\* "try: ... finally: cleanup_response_file(command_id, verbose)": a return
\* goes on to format_response, an exception to the finally clause.
WaitEnds_cleanup_on_return_only(c, r) ==
    IF InExec(c)
    THEN /\ result' = [result EXCEPT ![c] = r]
         /\ Goto(c, IF r.kind = "return" THEN "ec_format" ELSE "ec_return")
    ELSE Returned(c, r)
WaitEnds(c, r) ==
    IF InExec(c)
    THEN /\ result' = [result EXCEPT ![c] = r]
         /\ Goto(c, IF r.kind = "return" THEN "ec_format" ELSE "cr_validate")
    ELSE Returned(c, r)

UceInvalid == [NoResult EXCEPT !.kind = "raise", !.exc = "UnityCommandError",
                               !.msg = "Invalid command ID format"]

WaitCall(c) == WaitCallWith(c, {"u1"} \cup BadTokens, Timeouts)
\* the same with the identifier of a command and a timeout long enough for
\* the backoff interval to reach its cap
WaitCallLong(c) == WaitCallWith(c, {"u1"}, 0..MaxLongTimeout)

\* A caller enters wait_for_response(command_id, timeout, verbose) with the
\* identifier of a command.
WaitCallVerbose(c) ==
    /\ pc[c] = "idle"
    /\ \E t \in Timeouts, v \in BOOLEAN :
          args' = [args EXCEPT ![c] =
                      [ArgsInit EXCEPT !.command_id = "u1", !.timeout = t,
                                       !.verbose = v]]
    /\ loc' = [loc EXCEPT ![c] =
                  [LocInit EXCEPT !.top = "wait_for_response", !.command_id = "u1"]]
    /\ result' = [result EXCEPT ![c] = NoResult]
    /\ calls' = [calls EXCEPT ![c] = @ + 1]
    /\ hist' = [HistInit EXCEPT !.dirAtCall = dirKind]
    /\ Goto(c, "w_validate")
    /\ UNCHANGED <<valVars, fsVars, peerSeen>>

\* _validate_command_id(command_id); response_file = ...; start = time.time();
\* sleep_time = MIN_SLEEP; attempts = 0
WaitValidate(c) ==
    /\ pc[c] = "w_validate"
    /\ IF _validate_command_id(IdText(loc[c].command_id))
       THEN /\ loc' = [loc EXCEPT ![c].start = now, ![c].started = TRUE,
                                  ![c].sleep_time = MIN_SLEEP,
                                  ![c].attempts = 0, ![c].wakeAt = now]
            /\ hist' = [hist EXCEPT !.respAtCall = ResponseFile(c)]
            /\ Goto(c, "w_loop")
            /\ UNCHANGED result
       ELSE /\ WaitEnds(c, UceInvalid)
            /\ UNCHANGED <<loc, hist>>
    /\ UNCHANGED <<valVars, fsVars, args, calls, peerSeen>>

UceRead == [NoResult EXCEPT !.kind = "raise", !.exc = "UnityCommandError",
                            !.msg = "Failed to read response file"]
UceMismatch == [NoResult EXCEPT !.kind = "raise", !.exc = "UnityCommandError",
                                !.msg = "Response ID mismatch"]
UceParse == [NoResult EXCEPT !.kind = "raise", !.exc = "UnityCommandError",
                             !.msg = "Failed to parse response JSON"]
Escaped(exc) == [NoResult EXCEPT !.kind = "raise", !.exc = exc]

\* time.time() - start < timeout
TimeLeft_before_next_sleep(c) ==
    now + loc[c].sleep_time - loc[c].start < args[c].timeout * TicksPerSecond
TimeLeft(c) == now - loc[c].start < args[c].timeout * TicksPerSecond

\* if not UNITY_DIR.exists(): raise UnityNotRunningError(...)
\* raise CommandTimeoutError(...)
AfterLoopFault_timeout_only(c) == Escaped("CommandTimeoutError")
AfterLoopFault_peer_absent_only(c) == Escaped("UnityNotRunningError")
AfterLoopFault(c) ==
    IF ~PathExists(dirKind) THEN Escaped("UnityNotRunningError")
    ELSE Escaped("CommandTimeoutError")

\* while time.time() - start < timeout: attempts += 1 ...; then the faults
\* after the loop
WaitLoop(c) ==
    /\ pc[c] = "w_loop"
    /\ now >= loc[c].wakeAt
    /\ IF TimeLeft(c)
       THEN /\ loc' = [loc EXCEPT ![c].attempts = @ + 1]
            /\ Goto(c, "w_exists")
            /\ UNCHANGED result
       ELSE /\ loc' = [loc EXCEPT ![c].dir_exists = PathExists(dirKind)]
            /\ WaitEnds(c, AfterLoopFault(c))
    /\ UNCHANGED <<valVars, fsVars, args, calls, obsVars>>

\* if response_file.exists(): time.sleep(0.1) ... else (after the if):
\* time.sleep(sleep_time)
WaitExists(c) ==
    /\ pc[c] = "w_exists"
    /\ IF ResponseExists(c)
       THEN /\ loc' = [loc EXCEPT ![c].wakeAt = now + ReadGrace]
            /\ Goto(c, "w_read1")
       ELSE /\ loc' = [loc EXCEPT ![c].wakeAt = now + loc[c].sleep_time]
            /\ Goto(c, "w_backoff")
    /\ Touch(c, "exists")
    /\ UNCHANGED <<valVars, fsVars, args, result, calls, peerSeen>>

\* response_id = result.get("id", ""); response_id != command_id
IdMismatch_unless_success(c, r) == r.id # loc[c].command_id /\ r.status # "success"
IdMismatch(c, r) == r.id # loc[c].command_id

\* what the read of response_file meets: no file, or content of some kind
Seen(c) == IF ResponseExists(c) THEN ResponseFile(c).parse ELSE "missing"

\* if result.get("status") == "running": ... continue
StillRunning_never(r) == FALSE
StillRunning(r) == r.status = "running"

\* The block "if verbose:" of the first read (lines 179-191):
\* progress = result.get("progress", {}); current = progress.get("current", 0);
\* total = progress.get("total", 0); if total > 0: print ... else: print ...
\* It prints, or raises: AttributeError when progress is null, TypeError when
\* total is no number.  The field is absent (""), null, an object with
\* numbers or an object whose total is a string.
Progresses == {"", "null", "numbers", "text_total"}
ProgressReport_quiet(r, verbose) == ""
ProgressReport(r, verbose) ==
    IF ~verbose THEN ""
    ELSE IF r.progress = "null" THEN "AttributeError"
    ELSE IF r.progress = "text_total" THEN "TypeError"
    ELSE ""

\* response_file.read_text() opens the file for reading and closes it
read_text_consumes(c) ==
    /\ responses' = [responses EXCEPT ![loc[c].command_id] = NoResp]
    /\ UNCHANGED <<now, dirKind, dirMode, gitignore, files>>
read_text(c) == UNCHANGED fsVars

\* First read (lines 172-195) and the handlers of the outer try (221-224):
\* a missing file or a JSON value that is no object raises inside the try and
\* is wrapped by "except Exception".
WaitRead1(c) ==
    /\ pc[c] = "w_read1"
    /\ now >= loc[c].wakeAt
    /\ LET r == ResponseFile(c)
       IN  IF ~ResponseExists(c) \/ r.parse = "nonobject"
           THEN /\ WaitEnds(c, UceRead)
                /\ loc' = [loc EXCEPT ![c].reads = @ + 1, ![c].retry = FALSE,
                                      ![c].iterReads = 1, ![c].seen = Seen(c)]
           ELSE IF r.parse = "malformed"
           THEN /\ loc' = [loc EXCEPT ![c].wakeAt = now + RetryGrace,
                                      ![c].reads = @ + 1, ![c].retry = FALSE,
                                      ![c].iterReads = 1, ![c].seen = Seen(c)]
                /\ Goto(c, "w_read2")
                /\ UNCHANGED result
           ELSE IF IdMismatch(c, r)
           THEN /\ WaitEnds(c, UceMismatch)
                /\ loc' = [loc EXCEPT ![c].parsed = r, ![c].parsedAt = loc[c].attempts, ![c].reads = @ + 1, ![c].retry = FALSE,
                                      ![c].iterReads = 1, ![c].seen = Seen(c)]
           ELSE IF StillRunning(r) /\ ProgressReport(r, args[c].verbose) # ""
           THEN /\ WaitEnds(c, UceRead)
                /\ loc' = [loc EXCEPT ![c].parsed = r, ![c].parsedAt = loc[c].attempts, ![c].reads = @ + 1, ![c].retry = FALSE,
                                      ![c].iterReads = 1, ![c].seen = Seen(c)]
           ELSE IF StillRunning(r)
           THEN /\ loc' = [loc EXCEPT ![c].parsed = r, ![c].parsedAt = loc[c].attempts, ![c].reads = @ + 1, ![c].retry = FALSE,
                                      ![c].iterReads = 1, ![c].seen = Seen(c),
                                      ![c].wakeAt = now + loc[c].sleep_time]
                /\ Goto(c, "w_running")
                /\ UNCHANGED result
           ELSE /\ WaitEnds(c, [NoResult EXCEPT !.kind = "return", !.resp = r])
                /\ loc' = [loc EXCEPT ![c].parsed = r, ![c].parsedAt = loc[c].attempts, ![c].reads = @ + 1, ![c].retry = FALSE,
                                      ![c].iterReads = 1, ![c].seen = Seen(c)]
    /\ Touch(c, "read")
    /\ read_text(c)
    /\ UNCHANGED <<valVars, args, calls, peerSeen>>

\* except json.JSONDecodeError as e, in the retry (lines 216-220):
\* raise UnityCommandError("Failed to parse response JSON: ...")
SecondDecodeError_polls_on(c) ==
    /\ loc' = [loc EXCEPT ![c].reads = @ + 1, ![c].retry = TRUE,
                          ![c].iterReads = 2, ![c].seen = Seen(c),
                          ![c].wakeAt = now + loc[c].sleep_time]
    /\ Goto(c, "w_backoff")
    /\ UNCHANGED result
SecondDecodeError(c) ==
    /\ WaitEnds(c, UceParse)
    /\ loc' = [loc EXCEPT ![c].reads = @ + 1, ![c].retry = TRUE,
                          ![c].iterReads = 2, ![c].seen = Seen(c)]

\* return result, in the retry (line 215)
RetryResult_parse_fault(r) == UceParse
RetryResult(r) == [NoResult EXCEPT !.kind = "return", !.resp = r]

\* The retry inside "except json.JSONDecodeError" (lines 196-220).  What is
\* raised here is handled by the inner "except json.JSONDecodeError" only:
\* the outer handlers of the same try statement do not apply any more.
WaitRead2(c) ==
    /\ pc[c] = "w_read2"
    /\ now >= loc[c].wakeAt
    /\ LET r == ResponseFile(c)
       IN  IF ~ResponseExists(c)
           THEN /\ WaitEnds(c, Escaped("FileNotFoundError"))
                /\ loc' = [loc EXCEPT ![c].reads = @ + 1, ![c].retry = TRUE,
                                      ![c].iterReads = 2, ![c].seen = Seen(c)]
           ELSE IF r.parse = "nonobject"
           THEN /\ WaitEnds(c, Escaped("AttributeError"))
                /\ loc' = [loc EXCEPT ![c].reads = @ + 1, ![c].retry = TRUE,
                                      ![c].iterReads = 2, ![c].seen = Seen(c)]
           ELSE IF r.parse = "malformed"
           THEN SecondDecodeError(c)
           ELSE IF IdMismatch(c, r)
           THEN /\ WaitEnds(c, UceMismatch)
                /\ loc' = [loc EXCEPT ![c].parsed = r, ![c].parsedAt = loc[c].attempts, ![c].reads = @ + 1, ![c].retry = TRUE,
                                      ![c].iterReads = 2, ![c].seen = Seen(c)]
           ELSE IF StillRunning(r)
           THEN /\ loc' = [loc EXCEPT ![c].parsed = r, ![c].parsedAt = loc[c].attempts, ![c].reads = @ + 1, ![c].retry = TRUE,
                                      ![c].iterReads = 2, ![c].seen = Seen(c),
                                      ![c].wakeAt = now + loc[c].sleep_time]
                /\ Goto(c, "w_retry_running")
                /\ UNCHANGED result
           ELSE /\ WaitEnds(c, RetryResult(r))
                /\ loc' = [loc EXCEPT ![c].parsed = r, ![c].parsedAt = loc[c].attempts, ![c].reads = @ + 1, ![c].retry = TRUE,
                                      ![c].iterReads = 2, ![c].seen = Seen(c)]
    /\ Touch(c, "read")
    /\ read_text(c)
    /\ UNCHANGED <<valVars, args, calls, peerSeen>>

\* sleep_time = min(sleep_time * SLEEP_MULTIPLIER, MAX_SLEEP)
NextSleep(t) == Min(SleepMultiplied(t), MAX_SLEEP)

\* the end of time.sleep(sleep_time) and the update of sleep_time, at each
\* of the three places: lines 192-194, 212-214 and 230-231
AfterSleep_never_wakes(c, label) ==
    /\ pc[c] = label
    /\ now > loc[c].wakeAt + MAX_SLEEP
    /\ loc' = [loc EXCEPT ![c].sleep_time = NextSleep(@)]
    /\ Goto(c, "w_loop")
    /\ UNCHANGED <<valVars, fsVars, args, result, calls, obsVars>>
AfterSleep(c, label) ==
    /\ pc[c] = label
    /\ now >= loc[c].wakeAt
    /\ loc' = [loc EXCEPT ![c].sleep_time = NextSleep(@), ![c].sleeps = @ + 1]
    /\ Goto(c, "w_loop")
    /\ UNCHANGED <<valVars, fsVars, args, result, calls, obsVars>>
WaitRunning_resets(c) ==
    /\ pc[c] = "w_running"
    /\ now >= loc[c].wakeAt
    /\ loc' = [loc EXCEPT ![c].sleep_time = MIN_SLEEP, ![c].sleeps = @ + 1]
    /\ Goto(c, "w_loop")
    /\ UNCHANGED <<valVars, fsVars, args, result, calls, obsVars>>
WaitRunning(c) == AfterSleep(c, "w_running")
WaitRetryRunning(c) == AfterSleep(c, "w_retry_running")
WaitBackoff(c) == AfterSleep(c, "w_backoff")

wait_for_response(c) ==
    \/ WaitValidate(c) \/ WaitLoop(c) \/ WaitExists(c) \/ WaitRead1(c)
    \/ WaitRead2(c) \/ WaitRunning(c) \/ WaitRetryRunning(c) \/ WaitBackoff(c)

-----------------------------------------------------------------------------
(* cleanup_response_file *)

CrPcs == {"cr_validate", "cr_exists", "cr_unlink"}

CleanupCall(c) ==
    /\ pc[c] = "idle"
    /\ \E id \in {"u1"} \cup BadTokens :
          /\ args' = [args EXCEPT ![c] = [ArgsInit EXCEPT !.command_id = id]]
          /\ loc' = [loc EXCEPT ![c] =
                        [LocInit EXCEPT !.top = "cleanup_response_file",
                                        !.command_id = id]]
    /\ result' = [result EXCEPT ![c] = NoResult]
    /\ calls' = [calls EXCEPT ![c] = @ + 1]
    /\ hist' = [HistInit EXCEPT !.dirAtCall = dirKind]
    /\ Goto(c, "cr_validate")
    /\ UNCHANGED <<valVars, fsVars, peerSeen>>

\* How cleanup_response_file ends: it returns None.  As the finally clause
\* of execute_command it leaves the pending return value or exception alone.
CleanupEnds(c) ==
    IF InExec(c)
    THEN Goto(c, "ec_return") /\ UNCHANGED result
    ELSE Returned(c, [result[c] EXCEPT !.kind = "return"])

\* _validate_command_id(command_id); response_file = ...
CrValidate(c) ==
    /\ pc[c] = "cr_validate"
    /\ IF _validate_command_id(IdText(loc[c].command_id))
       THEN Goto(c, "cr_exists") /\ UNCHANGED result
       ELSE Raised(c, "UnityCommandError", "Invalid command ID format")
    /\ UNCHANGED <<valVars, fsVars, args, loc, calls, obsVars>>

\* if response_file.exists():
CrExists(c) ==
    /\ pc[c] = "cr_exists"
    /\ IF ResponseExists(c)
       THEN Goto(c, "cr_unlink") /\ UNCHANGED result
       ELSE CleanupEnds(c)
    /\ Touch(c, "cleanup_exists")
    /\ UNCHANGED <<valVars, fsVars, args, loc, calls, peerSeen>>

\* response_file.unlink(); a failure is caught by "except Exception"
CrUnlink(c) ==
    /\ pc[c] = "cr_unlink"
    /\ \E ok \in BOOLEAN :
          /\ responses' = IF ok /\ ResponseExists(c)
                          THEN [responses EXCEPT ![loc[c].command_id] = NoResp]
                          ELSE responses
          /\ hist' = [hist EXCEPT !.touched = @ \cup {"unlink"},
                                  !.unlinkFailed = ~ok /\ ResponseExists(c)]
    /\ CleanupEnds(c)
    /\ UNCHANGED <<valVars, now, dirKind, dirMode, gitignore, files, args, loc,
                   calls, peerSeen>>

cleanup_response_file(c) == CrValidate(c) \/ CrExists(c) \/ CrUnlink(c)

-----------------------------------------------------------------------------
(* execute_command: the two sweeps, write_command, and inside the try      *)
(* statement wait_for_response and format_response, with                    *)
(* cleanup_response_file as its finally clause.                             *)

EcPcs == {"ec_old", "ec_stale", "ec_format", "ec_return"}

\* max_age_hours as a caller passes it: none, and the default
MaxAges == {0, 1}
\* max_age_seconds = max_age_hours * 3600
Hour == 3600 * TicksPerSecond
max_age_seconds(c) == args[c].max_age_hours * Hour

\* action, params and cleanup of a call: as main passes them, and params
\* that json.dumps rejects
ExecInputs == {<<"compile", "{}", FALSE>>, <<"run-tests", "unserializable", TRUE>>}

\* A caller enters execute_command(action, params, timeout, cleanup).
ExecCall_sweeps_on_request(c) ==
    /\ pc[c] = "idle"
    /\ \E ap \in ExecInputs, t \in Timeouts :
          /\ args' = [args EXCEPT ![c] =
                         [ArgsInit EXCEPT !.action = ap[1], !.params = ap[2],
                                          !.cleanup = ap[3], !.timeout = t]]
          /\ Goto(c, IF ap[3] THEN "ec_old" ELSE "wc_uuid")
    /\ loc' = [loc EXCEPT ![c] = [LocInit EXCEPT !.top = "execute_command"]]
    /\ result' = [result EXCEPT ![c] = NoResult]
    /\ calls' = [calls EXCEPT ![c] = @ + 1]
    /\ hist' = [HistInit EXCEPT !.filesAtCall = files, !.dirAtCall = dirKind]
    /\ UNCHANGED <<valVars, fsVars, peerSeen>>
ExecCall(c) ==
    /\ pc[c] = "idle"
    /\ \E ap \in ExecInputs, t \in Timeouts :
          args' = [args EXCEPT ![c] =
                      [ArgsInit EXCEPT !.action = ap[1], !.params = ap[2],
                                       !.cleanup = ap[3], !.timeout = t]]
    /\ loc' = [loc EXCEPT ![c] = [LocInit EXCEPT !.top = "execute_command"]]
    /\ result' = [result EXCEPT ![c] = NoResult]
    /\ calls' = [calls EXCEPT ![c] = @ + 1]
    /\ hist' = [HistInit EXCEPT !.filesAtCall = files, !.dirAtCall = dirKind]
    /\ Goto(c, "ec_old")
    /\ UNCHANGED <<valVars, fsVars, peerSeen>>

\* A caller enters execute_command after an earlier invocation has ended.
ExecAgain(c) ==
    /\ pc[c] = "idle"
    /\ \E t \in Timeouts :
          args' = [args EXCEPT ![c] =
                      [ArgsInit EXCEPT !.action = "compile", !.params = "{}",
                                       !.timeout = t]]
    /\ loc' = [loc EXCEPT ![c] = [LocInit EXCEPT !.top = "execute_command"]]
    /\ result' = [result EXCEPT ![c] = NoResult]
    /\ calls' = [calls EXCEPT ![c] = @ + 1]
    /\ hist' = [HistInit EXCEPT !.filesAtCall = files, !.dirAtCall = dirKind,
                                !.responsesAtCall = responses,
                                !.issued = hist.issued, !.late = hist.late]
    /\ Goto(c, "ec_old")
    /\ UNCHANGED <<valVars, fsVars, peerSeen>>

\* A caller enters cleanup_old_responses(max_age_hours).
OldCall(c) ==
    /\ pc[c] = "idle"
    /\ \E h \in MaxAges :
          args' = [args EXCEPT ![c] = [ArgsInit EXCEPT !.max_age_hours = h]]
    /\ loc' = [loc EXCEPT ![c] = [LocInit EXCEPT !.top = "cleanup_old_responses"]]
    /\ result' = [result EXCEPT ![c] = NoResult]
    /\ calls' = [calls EXCEPT ![c] = @ + 1]
    /\ hist' = [HistInit EXCEPT !.filesAtCall = files, !.dirAtCall = dirKind,
                                !.responsesAtCall = responses]
    /\ Goto(c, "ec_old")
    /\ UNCHANGED <<valVars, fsVars, peerSeen>>

\* A caller enters cleanup_stale_command_file(timeout).
StaleCall(c) ==
    /\ pc[c] = "idle"
    /\ \E t \in Timeouts :
          args' = [args EXCEPT ![c] = [ArgsInit EXCEPT !.timeout = t]]
    /\ loc' = [loc EXCEPT ![c] =
                  [LocInit EXCEPT !.top = "cleanup_stale_command_file"]]
    /\ result' = [result EXCEPT ![c] = NoResult]
    /\ calls' = [calls EXCEPT ![c] = @ + 1]
    /\ hist' = [HistInit EXCEPT !.filesAtCall = files, !.dirAtCall = dirKind,
                                !.responsesAtCall = responses]
    /\ Goto(c, "ec_stale")
    /\ UNCHANGED <<valVars, fsVars, peerSeen>>

\* file_age > max_age_seconds
TooOld_or_just_as_old(c, mtime) == now - mtime >= max_age_seconds(c)
TooOld(c, mtime) == now - mtime > max_age_seconds(c)
\* the files UNITY_DIR.glob("response-*.json") and UNITY_DIR.glob("*.tmp")
\* yield that are older than max_age_seconds
OldResponses(c) ==
    IF PathIsDir(dirKind)
    THEN {t \in IdTokens : responses[t].st = "present" /\ TooOld(c, responses[t].mtime)}
    ELSE {}
OldTemps(c) ==
    IF PathIsDir(dirKind)
    THEN {q \in {temp_file} : files[q].st # "absent" /\ TooOld(c, files[q].mtime)}
    ELSE {}

\* How a sweep ends: inside execute_command the next statement follows, a
\* sweep called on its own returns None.
SweepEnds(c, label) ==
    IF InExec(c) THEN Goto(c, label) /\ UNCHANGED result
    ELSE Returned(c, [NoResult EXCEPT !.kind = "return"])

\* cleanup_old_responses(): every file of the two patterns older than
\* max_age_seconds is unlinked; an unlink that fails is passed over.
EcOld_stops_at_failure(c) ==
    /\ pc[c] = "ec_old"
    /\ \E keptR \in SUBSET OldResponses(c), keptT \in SUBSET OldTemps(c) :
          /\ responses' = [t \in IdTokens |->
                              IF keptR \cup keptT = {} /\ t \in OldResponses(c)
                              THEN NoResp ELSE responses[t]]
          /\ files' = [q \in Paths |->
                          IF keptR \cup keptT = {} /\ q \in OldTemps(c)
                          THEN AbsentFile ELSE files[q]]
          /\ hist' = [hist EXCEPT !.swept = Append(@, "cleanup_old_responses"),
                                  !.unlinkErrors = keptR \cup keptT]
          /\ IF keptR \cup keptT = {} THEN SweepEnds(c, "ec_stale")
             ELSE Raised(c, "OSError", "")
    /\ UNCHANGED <<valVars, now, dirKind, dirMode, gitignore, args, loc,
                   calls, peerSeen>>
EcOld(c) ==
    /\ pc[c] = "ec_old"
    /\ \E keptR \in SUBSET OldResponses(c), keptT \in SUBSET OldTemps(c) :
          /\ responses' = [t \in IdTokens |->
                              IF t \in OldResponses(c) \ keptR THEN NoResp
                              ELSE responses[t]]
          /\ files' = [q \in Paths |->
                          IF q \in OldTemps(c) \ keptT THEN AbsentFile ELSE files[q]]
          /\ hist' = [hist EXCEPT !.swept = Append(@, "cleanup_old_responses"),
                                  !.unlinkErrors = keptR \cup keptT]
    /\ SweepEnds(c, "ec_stale")
    /\ UNCHANGED <<valVars, now, dirKind, dirMode, gitignore, args, loc,
                   calls, peerSeen>>

\* command_file.exists() and file_age > timeout
IsStale_or_just_as_old(c) ==
    /\ PathIsDir(dirKind) /\ cmdFile.st # "absent"
    /\ now - cmdFile.mtime >= args[c].timeout * TicksPerSecond
IsStale(c) ==
    /\ PathIsDir(dirKind) /\ cmdFile.st # "absent"
    /\ now - cmdFile.mtime > args[c].timeout * TicksPerSecond

\* cleanup_stale_command_file(timeout): command.json is unlinked when
\* file_age > timeout; any exception is passed over.
EcStale(c) ==
    /\ pc[c] = "ec_stale"
    /\ \E ok \in BOOLEAN :
          /\ files' = IF ok /\ IsStale(c)
                      THEN [files EXCEPT ![CommandPath] = AbsentFile]
                      ELSE files
          /\ hist' = [hist EXCEPT !.swept = Append(@, "cleanup_stale_command_file"),
                                  !.unlinkErrors = IF ~ok /\ IsStale(c)
                                                   THEN {CommandPath} ELSE {}]
    /\ SweepEnds(c, "wc_uuid")
    /\ UNCHANGED <<valVars, now, dirKind, dirMode, gitignore, responses, args,
                   loc, calls, peerSeen>>

\* formatted = format_response(response, action): it returns the text, or
\* raises when a field of the response has not the type it expects
\* (duration_ms no number: TypeError; result no object: AttributeError).
EcFormat(c) ==
    /\ pc[c] = "ec_format"
    /\ \E typed \in BOOLEAN :
          result' = [result EXCEPT ![c] =
                        IF typed THEN [@ EXCEPT !.msg = "formatted"]
                        ELSE Escaped("TypeError")]
    /\ Goto(c, "cr_validate")
    /\ UNCHANGED <<valVars, fsVars, args, loc, calls, obsVars>>

\* The finally clause is over: the pending return or exception leaves
\* execute_command.
EcReturn(c) ==
    /\ pc[c] = "ec_return"
    /\ Goto(c, "done")
    /\ UNCHANGED <<valVars, fsVars, args, loc, result, calls, obsVars>>

\* KeyboardInterrupt, once per call.  Inside the try statement it goes to the
\* finally clause; before it, and inside the finally clause, it leaves
\* execute_command at once.
Interrupt(c) ==
    /\ InExec(c)
    /\ pc[c] \notin {"idle", "done", "exited"}
    /\ hist.interrupted = ""
    /\ result' = [result EXCEPT ![c] = Escaped("KeyboardInterrupt")]
    /\ IF pc[c] \in WaitPcs \cup {"ec_format"}
       THEN /\ Goto(c, "cr_validate")
            /\ hist' = [hist EXCEPT !.interrupted =
                           IF pc[c] \in WaitPcs THEN "poll" ELSE "try"]
       ELSE /\ Goto(c, "done")
            /\ hist' = [hist EXCEPT !.interrupted =
                           IF pc[c] \in CrPcs \cup {"ec_return"} THEN "finally"
                           ELSE "before"]
    /\ UNCHANGED <<valVars, fsVars, args, loc, calls, peerSeen>>

execute_command(c) ==
    \/ EcOld(c) \/ EcStale(c) \/ write_command(c) \/ wait_for_response(c)
    \/ EcFormat(c) \/ cleanup_response_file(c) \/ EcReturn(c)

-----------------------------------------------------------------------------
(* main and execute_health_check.  The command line is text: the values of *)
(* --timeout and --limit are sequences of characters that argparse puts    *)
(* through int().                                                           *)

MIN_LIMIT == 1
MAX_LIMIT == 1000

DigitValue(ch) ==
    CASE ch = "0" -> 0 [] ch = "1" -> 1 [] ch = "2" -> 2 [] ch = "3" -> 3
      [] ch = "4" -> 4 [] ch = "5" -> 5 [] ch = "6" -> 6 [] ch = "7" -> 7
      [] ch = "8" -> 8 [] ch = "9" -> 9
DigitText == <<"0", "1", "2", "3", "4", "5", "6", "7", "8", "9">>
Signs == {"+", "-"}
Unsigned(s) == IF Len(s) > 0 /\ s[1] \in Signs THEN Tail(s) ELSE s
\* int(s) of argparse's type=int: TRUE when it returns
IsInt(s) == Len(Unsigned(s)) > 0 /\ \A i \in 1..Len(Unsigned(s)) : Unsigned(s)[i] \in Digits
RECURSIVE Magnitude(_)
Magnitude(d) ==
    IF Len(d) = 0 THEN 0
    ELSE 10 * Magnitude(SubSeq(d, 1, Len(d) - 1)) + DigitValue(d[Len(d)])
\* and the number it returns
int(s) == IF Len(s) > 0 /\ s[1] = "-" THEN 0 - Magnitude(Unsigned(s))
          ELSE Magnitude(Unsigned(s))
\* str(n) for n >= 0
RECURSIVE str(_)
str(n) == IF n < 10 THEN DigitText[n + 1]
          ELSE str(n \div 10) \o DigitText[(n % 10) + 1]

MainPcs == {"m_parse", "hc_exists"}

\* the command line: a command, --timeout with its value, and --limit with
\* its value or not at all
Argv(cmd, t, l) == [command |-> cmd, timeout |-> t, limit |-> l]
NoLimit == << >>
Limit(text) == <<text>>
TimeoutTexts == {<<"a">>, <<"-", "5">>, <<"0">>, <<"1">>}
LimitTexts == {<<"x">>, <<"-", "1">>, <<"0">>, <<"1">>, <<"0", "1">>,
               <<"1", "0", "0", "0">>, <<"1", "0", "0", "1">>}
MainInputs ==
    {Argv("compile", t, NoLimit) : t \in TimeoutTexts} \cup
    {Argv("get-console-logs", <<"1">>, Limit(l)) : l \in LimitTexts} \cup
    {Argv("compile", <<"1">>, Limit(l)) : l \in {<<"0">>, <<"1">>}} \cup
    {Argv("get-console-logs", <<"0">>, Limit(<<"1">>))} \cup
    {Argv("health-check", t, NoLimit) : t \in TimeoutTexts \cup {<<"6">>}} \cup
    {Argv("health-check", <<"1">>, Limit(<<"0">>))}

\* The process is started: main().
MainCall(c) ==
    /\ pc[c] = "idle"
    /\ \E a \in MainInputs : args' = [args EXCEPT ![c] = [ArgsInit EXCEPT !.argv = a]]
    /\ loc' = [loc EXCEPT ![c] = [LocInit EXCEPT !.top = "main"]]
    /\ result' = [result EXCEPT ![c] = NoResult]
    /\ calls' = [calls EXCEPT ![c] = @ + 1]
    /\ hist' = [HistInit EXCEPT !.filesAtCall = files, !.dirAtCall = dirKind,
                                !.responsesAtCall = responses]
    /\ Goto(c, "m_parse")
    /\ UNCHANGED <<valVars, fsVars, peerSeen>>

\* main is over: it returned an exit code, parser.error ended the process
\* with one (SystemExit), or an exception left it
Exits(c, code) ==
    /\ loc' = [loc EXCEPT ![c].exit = code]
    /\ Goto(c, "exited")
Escapes(c, exc) ==
    /\ loc' = [loc EXCEPT ![c].escaped = exc]
    /\ Goto(c, "exited")

\* parser.parse_args() and the two validations: parser.error prints the
\* usage and exits with status 2
Rejected_unless_positive_or_zero(a) ==
    \/ ~IsInt(a.timeout)
    \/ Len(a.limit) > 0 /\ ~IsInt(a.limit[1])
    \/ int(a.timeout) < 0
    \/ Len(a.limit) > 0 /\ (int(a.limit[1]) < MIN_LIMIT \/ int(a.limit[1]) > MAX_LIMIT)
Rejected(a) ==
    \/ ~IsInt(a.timeout)
    \/ Len(a.limit) > 0 /\ ~IsInt(a.limit[1])
    \/ int(a.timeout) <= 0
    \/ Len(a.limit) > 0 /\ (int(a.limit[1]) < MIN_LIMIT \/ int(a.limit[1]) > MAX_LIMIT)

\* params as main builds them: params["limit"] = str(args.limit) for
\* get-console-logs, nothing for the commands without options
BuildParams(a) ==
    IF a.command = "get-console-logs" /\ Len(a.limit) > 0
    THEN "{limit: '" \o str(int(a.limit[1])) \o "'}"
    ELSE "{}"

\* execute_command(action, params, timeout) is entered from main or from
\* execute_health_check
EnterExec(c, caller, action, params, timeout) ==
    /\ args' = [args EXCEPT ![c].action = action, ![c].params = params,
                            ![c].timeout = timeout]
    /\ loc' = [loc EXCEPT ![c] = [LocInit EXCEPT !.top = "execute_command",
                                                 !.caller = caller]]
    /\ Goto(c, "ec_old")

\* main from parse_args to the call of execute_command or of
\* execute_health_check
MainParse(c) ==
    /\ pc[c] = "m_parse"
    /\ LET a == args[c].argv
       IN  IF Rejected(a)
           THEN Exits(c, 2) /\ UNCHANGED args
           ELSE IF a.command = "health-check"
           THEN /\ Goto(c, "hc_exists")
                /\ UNCHANGED <<args, loc>>
           ELSE EnterExec(c, "main", a.command, BuildParams(a), int(a.timeout))
    /\ UNCHANGED <<valVars, fsVars, result, calls, obsVars>>

\* the except clauses of main, in their order, and the return after print
ExitCode_timeout_is_error(r) ==
    IF r.kind = "return" THEN EXIT_SUCCESS ELSE EXIT_ERROR
ExitCode(r) ==
    IF r.kind = "return" THEN EXIT_SUCCESS
    ELSE IF r.exc = "CommandTimeoutError" THEN EXIT_TIMEOUT
    ELSE IF r.exc = "UnityNotRunningError" THEN EXIT_ERROR
    ELSE IF r.exc = "UnityCommandError" THEN EXIT_ERROR
    ELSE IF r.exc = "KeyboardInterrupt" THEN EXIT_ERROR
    ELSE EXIT_ERROR

\* execute_command has ended inside the try statement of main
MainExcept_by_status(c) ==
    /\ pc[c] = "done"
    /\ loc[c].caller = "main"
    /\ Exits(c, IF result[c].kind = "return" /\ result[c].resp.status # "success"
                THEN EXIT_ERROR ELSE ExitCode(result[c]))
    /\ UNCHANGED <<valVars, fsVars, args, result, calls, obsVars>>
MainExcept(c) ==
    /\ pc[c] = "done"
    /\ loc[c].caller = "main"
    /\ Exits(c, ExitCode(result[c]))
    /\ UNCHANGED <<valVars, fsVars, args, result, calls, obsVars>>

\* min(timeout, 5)
HealthTimeout_uncapped(t) == t
HealthTimeout(t) == Min(t, 5)

\* execute_health_check: if not UNITY_DIR.exists(): return EXIT_ERROR;
\* else execute_command("get-status", {}, timeout=min(timeout, 5))
HcExists(c) ==
    /\ pc[c] = "hc_exists"
    /\ IF ~PathExists(dirKind)
       THEN Exits(c, EXIT_ERROR) /\ UNCHANGED args
       ELSE EnterExec(c, "execute_health_check", "get-status", "{}",
                      HealthTimeout(int(args[c].argv.timeout)))
    /\ UNCHANGED <<valVars, fsVars, result, calls, obsVars>>

\* the try statement of execute_health_check: a return and its two except
\* clauses; any other exception leaves it, and leaves main, whose call of
\* execute_health_check is outside its own try statement
HcExcept(c) ==
    /\ pc[c] = "done"
    /\ loc[c].caller = "execute_health_check"
    /\ IF result[c].kind = "return" THEN Exits(c, EXIT_SUCCESS)
       ELSE IF result[c].exc = "UnityNotRunningError" THEN Exits(c, EXIT_ERROR)
       ELSE IF result[c].exc = "CommandTimeoutError" THEN Exits(c, EXIT_TIMEOUT)
       ELSE Escapes(c, result[c].exc)
    /\ UNCHANGED <<valVars, fsVars, args, result, calls, obsVars>>

execute_health_check(c) == HcExists(c) \/ HcExcept(c)

main(c) ==
    \/ MainParse(c) \/ execute_health_check(c) \/ execute_command(c)
    \/ MainExcept(c)

-----------------------------------------------------------------------------
(* The clock and the environment of a poll *)

Sleeping(c) == pc[c] \in WaitPcs /\ loc[c].started /\ now < loc[c].wakeAt

\* Time passes while the controller sleeps, to the end of the sleep.
Tick ==
    \E c \in Ctl :
        /\ Sleeping(c)
        /\ now' = loc[c].wakeAt
        /\ UNCHANGED <<valVars, dirKind, dirMode, gitignore, files, responses,
                       ctlVars, obsVars>>

Statuses == {"running", "success", "failure", "error"}
Resp(parse, id, status) ==
    [st |-> "present", parse |-> parse, id |-> id, status |-> status, mtime |-> 0,
     progress |-> ""]
\* What a response file for identifier k may hold: text that is no JSON, JSON
\* that is no object, or an object whose id is k, another identifier or missing.
RespContents(k) ==
    {Resp("malformed", "empty", ""), Resp("nonobject", "empty", "")} \cup
    {Resp("object", id, st) : id \in {k, "u0", "empty"}, st \in Statuses}

Polling(c) == pc[c] \in WaitPcs \cup CrPcs \cup {"ec_return"}
EnvStep(c) ==
    /\ Polling(c)
    /\ hist.envOps < (IF InExec(c) THEN MaxExecPeerOps ELSE MaxPeerOps)
LateNow(c) == loc[c].started /\ now >= Deadline(c)

\* response-<id>.json holds a running response with the caller's identifier
RunningFor(c, resps) ==
    /\ resps[loc[c].command_id].st = "present"
    /\ resps[loc[c].command_id].parse = "object"
    /\ resps[loc[c].command_id].id = loc[c].command_id
    /\ resps[loc[c].command_id].status = "running"

\* The peer writes response-<id>.json for the identifier the caller waits
\* for; it answers commands only, whose identifiers come from uuid4.
PeerWriteResponse ==
    \E c \in Ctl :
        /\ EnvStep(c)
        /\ PathIsDir(dirKind)
        /\ loc[c].command_id \in Uuid4Tokens
        /\ \E r \in RespContents(loc[c].command_id) :
              /\ r # [ResponseFile(c) EXCEPT !.mtime = 0]
              /\ responses' = [responses EXCEPT ![loc[c].command_id] =
                                  [r EXCEPT !.mtime = now]]
        /\ hist' = [hist EXCEPT !.envOps = @ + 1, !.writes = @ + 1,
                                !.wroteLate = @ \/ LateNow(c),
                                !.readsAtWrite = loc[c].reads,
                                !.wroteAfterCleanup = @ \/ pc[c] = "ec_return",
                                !.wroteOther = @ \/ ~RunningFor(c, responses')]
        /\ UNCHANGED <<valVars, now, dirKind, dirMode, gitignore, files,
                       ctlVars, peerSeen>>

\* The peer writes a progress update: a running response for the identifier
\* the caller waits for, with a progress field of any shape.
RunningWith(k, p) == [Resp("object", k, "running") EXCEPT !.progress = p]
PeerWriteProgress ==
    \E c \in Ctl :
        /\ EnvStep(c)
        /\ PathIsDir(dirKind)
        /\ loc[c].command_id \in Uuid4Tokens
        /\ \E p \in Progresses \ {""} :
              /\ RunningWith(loc[c].command_id, p) # [ResponseFile(c) EXCEPT !.mtime = 0]
              /\ responses' = [responses EXCEPT ![loc[c].command_id] =
                                  [RunningWith(loc[c].command_id, p) EXCEPT !.mtime = now]]
        /\ hist' = [hist EXCEPT !.envOps = @ + 1, !.writes = @ + 1,
                                !.wroteLate = @ \/ LateNow(c),
                                !.readsAtWrite = loc[c].reads]
        /\ UNCHANGED <<valVars, now, dirKind, dirMode, gitignore, files,
                       ctlVars, peerSeen>>

\* The peer answers late: it writes the terminal response to a command of an
\* earlier invocation while a later invocation polls.
PeerWriteLate ==
    \E c \in Ctl :
        /\ Polling(c)
        /\ PathIsDir(dirKind)
        /\ \E k \in Uuid4Tokens, st \in {"success"} :
              /\ \E i \in 1..Len(hist.issued) : hist.issued[i] = k
              /\ k # loc[c].command_id
              /\ k \notin hist.late
              /\ responses' = [responses EXCEPT ![k] =
                                  [Resp("object", k, st) EXCEPT !.mtime = now]]
              /\ hist' = [hist EXCEPT !.late = @ \cup {k}]
        /\ UNCHANGED <<valVars, now, dirKind, dirMode, gitignore, files,
                       ctlVars, peerSeen>>

\* Another process removes the response file.
ResponseRemoved ==
    \E c \in Ctl :
        /\ EnvStep(c)
        /\ ResponseExists(c)
        /\ responses' = [responses EXCEPT ![loc[c].command_id] = NoResp]
        /\ hist' = [hist EXCEPT !.envOps = @ + 1, !.removed = TRUE]
        /\ UNCHANGED <<valVars, now, dirKind, dirMode, gitignore, files,
                       ctlVars, peerSeen>>

\* The shared directory is removed with all it holds, or created (by the
\* peer starting up).
DirRemoved ==
    \E c \in Ctl :
        /\ EnvStep(c)
        /\ dirKind = "dir"
        /\ dirKind' = "absent"
        /\ dirMode' = ""
        /\ files' = [p \in Paths |-> AbsentFile]
        /\ responses' = [t \in IdTokens |-> NoResp]
        /\ hist' = [hist EXCEPT !.envOps = @ + 1, !.dirChanged = TRUE]
        /\ UNCHANGED <<valVars, now, gitignore, ctlVars, peerSeen>>
DirCreated ==
    \E c \in Ctl :
        /\ EnvStep(c)
        /\ dirKind = "absent"
        /\ dirKind' = "dir"
        /\ dirMode' = "0755"
        /\ hist' = [hist EXCEPT !.envOps = @ + 1, !.dirChanged = TRUE]
        /\ UNCHANGED <<valVars, now, gitignore, files, responses, ctlVars,
                       peerSeen>>

-----------------------------------------------------------------------------
(* uninstall_skill: removal of the installed skill.  The target is the     *)
(* path get_skill_target_dir(); a directory is described by the names it   *)
(* holds, a symbolic link by whether what it points to exists.             *)

SkillEntries == {"SKILL.md", "references", "notes.txt"}

NoTarget == [kind |-> "absent", to |-> "", entries |-> {}]
Targets ==
    {NoTarget, [kind |-> "file", to |-> "", entries |-> {}]}
    \cup {[kind |-> "symlink", to |-> t, entries |-> {}] : t \in {"dir", "missing"}}
    \cup {[kind |-> "dir", to |-> "", entries |-> e] : e \in SUBSET SkillEntries}

\* Path.exists() follows a symbolic link; Path.is_symlink() and is_dir()
exists(t) == t.kind \in {"dir", "file"} \/ (t.kind = "symlink" /\ t.to = "dir")
is_symlink(t) == t.kind = "symlink"
is_dir(t) == t.kind = "dir" \/ (t.kind = "symlink" /\ t.to = "dir")
\* (target_dir / "SKILL.md").exists()
has_skill_md(t) == is_dir(t) /\ (t.kind = "dir" => "SKILL.md" \in t.entries)

\* before: the target when the call was made (history)
UsIdle == [pc |-> "idle", verbose |-> FALSE, code |-> EXIT_SUCCESS,
           stderr |-> "", before |-> NoTarget]

UsGoto(l) == us' = [us EXCEPT !.pc = l]
UsReturn(code, err) ==
    us' = [us EXCEPT !.pc = "us_done", !.code = code, !.stderr = err]

\* uninstall_skill(verbose); target_dir = get_skill_target_dir()
UsCall ==
    /\ us.pc = "idle"
    /\ \E v \in BOOLEAN :
          us' = [us EXCEPT !.pc = "us_installed", !.verbose = v,
                           !.before = target_dir]
    /\ UNCHANGED <<idArg, vres, target_dir, fsVars, ctlVars, obsVars>>

\* if not target_dir.exists() and not target_dir.is_symlink(): return EXIT_SUCCESS
UsInstalled ==
    /\ us.pc = "us_installed"
    /\ IF ~exists(target_dir) /\ ~is_symlink(target_dir)
          THEN UsReturn(EXIT_SUCCESS, "")
          ELSE UsGoto("us_is_symlink")
    /\ UNCHANGED <<idArg, vres, target_dir, fsVars, ctlVars, obsVars>>

\* if target_dir.is_symlink(): ... elif target_dir.is_dir(): ... else:
\* the regular file is left alone, with a warning on stderr
UsIsSymlink ==
    /\ us.pc = "us_is_symlink"
    /\ IF is_symlink(target_dir) THEN UsGoto("us_unlink")
          ELSE IF is_dir(target_dir) THEN UsGoto("us_skill_md")
          ELSE UsReturn(EXIT_ERROR, "not a symlink or directory")
    /\ UNCHANGED <<idArg, vres, target_dir, fsVars, ctlVars, obsVars>>

\* try: target_dir.unlink(); return EXIT_SUCCESS
\* except Exception: return EXIT_ERROR.  The removal of the link succeeds
\* or fails as the parent directory allows.
UsUnlink ==
    /\ us.pc = "us_unlink"
    /\ \/ /\ target_dir' = NoTarget
          /\ UsReturn(EXIT_SUCCESS, "")
       \/ /\ UsReturn(EXIT_ERROR, "Could not remove symlink")
          /\ UNCHANGED target_dir
    /\ UNCHANGED <<idArg, vres, fsVars, ctlVars, obsVars>>

UsSkillMd_any_directory ==
    /\ us.pc = "us_skill_md"
    /\ UsGoto("us_rmtree")
    /\ UNCHANGED <<idArg, vres, target_dir, fsVars, ctlVars, obsVars>>

\* if (target_dir / "SKILL.md").exists(): ... else: the directory is left
\* alone, with a warning on stderr
UsSkillMd ==
    /\ us.pc = "us_skill_md"
    /\ IF has_skill_md(target_dir) THEN UsGoto("us_rmtree")
          ELSE UsReturn(EXIT_ERROR, "doesn't appear to be a skill installation")
    /\ UNCHANGED <<idArg, vres, target_dir, fsVars, ctlVars, obsVars>>

\* try: shutil.rmtree(target_dir); return EXIT_SUCCESS
\* except Exception: return EXIT_ERROR.  A removal that fails has removed
\* any part of the entries and left the directory.
UsRmtree ==
    /\ us.pc = "us_rmtree"
    /\ \/ /\ target_dir' = NoTarget
          /\ UsReturn(EXIT_SUCCESS, "")
       \/ /\ \E left \in SUBSET target_dir.entries :
                target_dir' = [target_dir EXCEPT !.entries = left]
          /\ UsReturn(EXIT_ERROR, "Could not remove directory")
    /\ UNCHANGED <<idArg, vres, fsVars, ctlVars, obsVars>>

uninstall_skill ==
    \/ UsInstalled \/ UsIsSymlink \/ UsUnlink \/ UsSkillMd \/ UsRmtree

-----------------------------------------------------------------------------
(* Specification of the identifier validation alone *)

CtlIdle ==
    /\ pc = [c \in Controllers |-> "idle"]
    /\ args = [c \in Controllers |-> ArgsInit]
    /\ loc = [c \in Controllers |-> LocInit]
    /\ result = [c \in Controllers |-> NoResult]
    /\ calls = [c \in Controllers |-> 0]
FsEmpty ==
    /\ now = 0
    /\ dirKind = "absent"
    /\ dirMode = ""
    /\ gitignore = "missing"
    /\ files = [p \in Paths |-> AbsentFile]
    /\ responses = [t \in IdTokens |-> NoResp]
ObsInit ==
    /\ peerSeen = AbsentFile
    /\ hist = HistInit
ValIdle ==
    /\ idArg = << >>
    /\ vres = "none"
    /\ target_dir = NoTarget
    /\ us = UsIdle

InitValidate ==
    /\ idArg \in IdInputs
    /\ vres = "none"
    /\ target_dir = NoTarget
    /\ us = UsIdle
    /\ CtlIdle /\ FsEmpty /\ ObsInit

Validate ==
    /\ vres = "none"
    /\ vres' = IF _validate_command_id(idArg) THEN "ok" ELSE "invalid"
    /\ UNCHANGED <<idArg, target_dir, us, fsVars, ctlVars, obsVars>>

NextValidate == Validate
SpecValidate == InitValidate /\ [][NextValidate]_vars

-----------------------------------------------------------------------------
(* Specification of the command channel: write_command called up to        *)
(* MaxCalls times on any kind of shared directory, the peer reading.       *)

OldCommand == [id |-> "u0", action |-> "compile", params |-> "{}"]
OldFile == [st |-> "complete", data |-> OldCommand, mtime |-> 0, mode |-> "0600",
            ino |-> <<"old", 0>>]
StaleTemp == [st |-> "partial", data |-> NoCmd, mtime |-> 0, mode |-> "0644",
              ino |-> <<"old", 1>>]

InitWrite ==
    /\ ValIdle /\ CtlIdle /\ ObsInit
    /\ now = 0
    /\ dirKind \in DirKinds
    /\ dirMode \in (IF dirKind = "dir" THEN {"0755", "0700"} ELSE {""})
    /\ gitignore \in (IF PathExists(dirKind) THEN {"no_rule"} ELSE GitignoreKinds)
    /\ files \in (IF dirKind = "dir"
                  THEN [Paths -> {AbsentFile, OldFile, StaleTemp}]
                  ELSE {[p \in Paths |-> AbsentFile]})
    /\ cmdFile # StaleTemp /\ tmpFile # OldFile
    /\ responses = [t \in IdTokens |-> NoResp]

NextWrite ==
    \/ \E c \in Ctl : WcCall(c) \/ write_command(c)
    \/ PeerReadCommand

SpecWrite == InitWrite /\ [][NextWrite]_vars

-----------------------------------------------------------------------------
(* Properties of the identifier validation and of the command channel *)

\* C6: _validate_command_id accepts a text if and only if it is exactly 36
\* characters in the form 8-4-4-4-12 hex; every other text is rejected.
C6_ValidateAcceptsExactlyUuids ==
    vres # "none" => (vres = "ok" <=> IsCanonicalUuid(idArg))

WriteEnded(c) == pc[c] = "done" /\ loc[c].top = "write_command"
WriteReturned(c) == WriteEnded(c) /\ result[c].kind = "return"

\* C1: a write_command that returns gives back a 36-character identifier of
\* the form 8-4-4-4-12 hex, and command.json then holds one complete command
\* with that identifier and the action and params of the call.
C1_SubmitPublishesItsCommand ==
    \A c \in Ctl :
        WriteReturned(c) =>
            /\ Len(IdText(result[c].id)) = 36
            /\ IsCanonicalUuid(IdText(result[c].id))
            /\ cmdFile.st = "complete"
            /\ cmdFile.data = [id |-> result[c].id, action |-> args[c].action,
                               params |-> args[c].params]

\* a call returned after replacing an earlier command
C1_Witness ==
    \E c \in Ctl :
        /\ WriteReturned(c)
        /\ hist.filesAtCall[CommandPath].st = "complete"
        /\ cmdFile.data.id # hist.filesAtCall[CommandPath].data.id

PeerReadDuringWrite == hist.seenInCall > 0 /\ hist.seenInCall = calls["c1"]

\* C2: what the peer read from command.json while write_command was running
\* is no file, the complete previous command or the complete new command,
\* never a partly written one.
C2_PeerNeverSeesPartialCommand ==
    PeerReadDuringWrite =>
        /\ peerSeen.st # "partial"
        /\ \/ peerSeen = hist.filesAtCall[CommandPath]
           \/ peerSeen.st = "complete" /\ peerSeen.data = Command("c1")

\* the peer read the previous command while the temp file was half written
C2_Witness ==
    /\ PeerReadDuringWrite
    /\ pc["c1"] = "wc_write"
    /\ tmpFile.st = "partial"
    /\ peerSeen.st = "complete"

\* C7: when the shared directory path is a symbolic link at the call, whatever
\* it points to, write_command raises the security fault and has written no
\* file and created no directory.
C7_SymlinkAlwaysSecurityFault ==
    \A c \in Ctl :
        WriteEnded(c) /\ PathIsSymlink(hist.dirAtCall) =>
            /\ result[c].kind = "raise"
            /\ result[c].exc = "UnityCommandError"
            /\ result[c].msg = "Security error: .unity-bridge cannot be a symlink"
            /\ files = hist.filesAtCall
            /\ dirKind = hist.dirAtCall

-----------------------------------------------------------------------------
(* Specification of the poller: one call of wait_for_response or of         *)
(* cleanup_response_file with any identifier, the peer writing the response *)
(* file and the shared directory coming and going meanwhile.                *)

InitPoll ==
    /\ ValIdle /\ CtlIdle /\ ObsInit
    /\ now = 0
    /\ dirKind \in {"absent", "dir"}
    /\ dirMode = (IF dirKind = "dir" THEN "0700" ELSE "")
    /\ gitignore = "has_rule"
    /\ files = [p \in Paths |-> AbsentFile]
    /\ \E r \in (IF dirKind = "dir" THEN {NoResp} \cup RespContents("u1")
                 ELSE {NoResp}),
          q \in (IF dirKind = "dir"
                 THEN {NoResp, Resp("object", "u1_newline", "success")}
                 ELSE {NoResp}) :
          responses = [t \in IdTokens |->
                          IF t = "u1" THEN r
                          ELSE IF t = "u1_newline" THEN q ELSE NoResp]

NextPoll ==
    \/ \E c \in Ctl : WaitCall(c) \/ wait_for_response(c)
    \/ \E c \in Ctl : CleanupCall(c) \/ cleanup_response_file(c)
    \/ Tick
    \/ PeerWriteResponse \/ ResponseRemoved \/ DirRemoved \/ DirCreated

SpecPoll == InitPoll /\ [][NextPoll]_vars

-----------------------------------------------------------------------------
(* Properties of the poller *)

WaitEnded(c) == pc[c] = "done" /\ loc[c].top = "wait_for_response"
CleanupEnded(c) == pc[c] = "done" /\ loc[c].top = "cleanup_response_file"

\* C4: wait_for_response never returns a response whose id differs from the
\* requested identifier; whenever the response it parsed has another id or
\* none, on the first read or on the retry, whatever its status, the call
\* raises the correlation fault.
C4_MismatchIsCorrelationFault ==
    \A c \in Ctl :
        WaitEnded(c) =>
            /\ result[c].kind = "return" => result[c].resp.id = loc[c].command_id
            /\ (loc[c].parsed.st = "present" /\ loc[c].parsed.id # loc[c].command_id)
                  => result[c] = UceMismatch

\* the retry read a response with another id and status success
C4_Witness ==
    \E c \in Ctl :
        /\ WaitEnded(c)
        /\ loc[c].retry
        /\ loc[c].parsed.id = "u0"
        /\ loc[c].parsed.status = "success"
        /\ result[c] = UceMismatch

\* C5: for every text that is no valid identifier, wait_for_response and
\* cleanup_response_file raise the validation fault and make no access to a
\* path built from it.
C5_InvalidIdRaisesBeforeAnyAccess ==
    \A c \in Ctl :
        (WaitEnded(c) \/ CleanupEnded(c)) /\ ~IsCanonicalUuid(IdText(args[c].command_id))
            => /\ result[c].kind = "raise"
               /\ result[c].msg = "Invalid command ID format"
               /\ hist.touched = {}

NoResponseAppeared == hist.respAtCall.st = "absent" /\ hist.writes = 0
Elapsed(c) == now - loc[c].start

\* C8: when no response file appeared and UNITY_DIR.exists() holds after the
\* loop, wait_for_response raises CommandTimeoutError, and not before timeout
\* seconds have passed since it started.
C8_TimeoutAfterAtLeastTimeout ==
    \A c \in Ctl :
        WaitEnded(c) /\ loc[c].started /\ NoResponseAppeared /\ loc[c].dir_exists
            => /\ result[c] = Escaped("CommandTimeoutError")
               /\ Elapsed(c) >= args[c].timeout * TicksPerSecond

\* a one-second wait timed out after five polls
C8_Witness ==
    \E c \in Ctl :
        /\ WaitEnded(c) /\ loc[c].started /\ NoResponseAppeared
        /\ args[c].timeout = 1
        /\ loc[c].attempts = 5
        /\ result[c] = Escaped("CommandTimeoutError")

\* C9: when the shared directory does not exist during the whole call,
\* wait_for_response (given an identifier it accepts) raises
\* UnityNotRunningError, never CommandTimeoutError, whatever the timeout.
C9_AbsentDirectoryIsPeerAbsent ==
    \A c \in Ctl :
        WaitEnded(c) /\ loc[c].started /\ hist.dirAtCall = "absent" /\ ~hist.dirChanged
            => result[c] = Escaped("UnityNotRunningError")

\* a one-second wait polled to the deadline without a directory
C9_Witness ==
    \E c \in Ctl :
        /\ WaitEnded(c) /\ loc[c].started
        /\ hist.dirAtCall = "absent" /\ ~hist.dirChanged
        /\ args[c].timeout = 1 /\ loc[c].attempts > 1
        /\ result[c] = Escaped("UnityNotRunningError")

\* The poller read the running response, and the peer's only act during the
\* call was then to overwrite it with a matching success response, before the
\* deadline.
RunningThenSuccessInTime(c) ==
    /\ hist.readsAtWrite >= 1
    /\ hist.respAtCall.st = "present"
    /\ hist.respAtCall.parse = "object"
    /\ hist.respAtCall.id = loc[c].command_id
    /\ hist.respAtCall.status = "running"
    /\ hist.envOps = 1 /\ hist.writes = 1 /\ ~hist.wroteLate
    /\ ResponseFile(c).st = "present"
    /\ ResponseFile(c).parse = "object"
    /\ ResponseFile(c).id = loc[c].command_id
    /\ ResponseFile(c).status = "success"

\* C10: when the response file holds a running response and the peer
\* overwrites it with a matching success response at any moment before the
\* timeout elapses, wait_for_response returns the success response, having
\* read the file at least twice.  (Stated for the overwrites that come after
\* the poller has read the running response.)
C10_RunningThenSuccessIsReturned ==
    \A c \in Ctl :
        WaitEnded(c) /\ RunningThenSuccessInTime(c)
            => /\ result[c].kind = "return"
               /\ result[c].resp.status = "success"
               /\ loc[c].reads >= 2

-----------------------------------------------------------------------------
(* Specification of execute_command: one call on a shared directory that    *)
(* is absent or holds what earlier calls left, the peer answering, the      *)
(* shared directory going away and the user interrupting meanwhile.         *)

Aged(f, age) == [f EXCEPT !.mtime = 0 - age]
OldResponse == Aged(Resp("object", "u0", "success"), Hour + 1)

InitExec ==
    /\ ValIdle /\ CtlIdle /\ ObsInit
    /\ now = 0
    /\ dirKind \in {"absent", "dir", "symlink_dir"}
    /\ dirMode = (IF dirKind = "dir" THEN "0700" ELSE "")
    /\ gitignore = "has_rule"
    /\ files = [p \in Paths |->
          IF PathIsDir(dirKind)
          THEN (IF p = CommandPath THEN Aged(OldFile, TicksPerSecond \div 2)
                ELSE Aged(StaleTemp, Hour + 1))
          ELSE AbsentFile]
    /\ responses = [t \in IdTokens |->
          IF PathIsDir(dirKind) /\ t = "u0" THEN OldResponse ELSE NoResp]

\* The peer, down while the call lasted, starts after it has ended and reads
\* command.json.
PeerStartsLater ==
    /\ \A c \in Ctl : pc[c] = "done"
    /\ PeerReadCommand

NextExec ==
    \/ \E c \in Ctl : ExecCall(c) \/ execute_command(c) \/ Interrupt(c)
    \/ Tick
    \/ PeerWriteResponse \/ DirRemoved
    \/ PeerStartsLater

SpecExec == InitExec /\ [][NextExec]_vars

-----------------------------------------------------------------------------
(* Properties of execute_command *)

ExecEnded(c) == pc[c] = "done" /\ InExec(c)
\* write_command returned the identifier to execute_command
GotId(c) == loc[c].ec_command_id # "empty"

\* C3 as the specification states it: after any invocation of
\* execute_command that obtained a command identifier, however it ends, the
\* file response-<id>.json of that identifier does not exist when control
\* returns to the caller.
C3_ResponseFileAbsentAtReturn ==
    \A c \in Ctl : ExecEnded(c) /\ GotId(c) => ~ResponseExists(c)

\* C3, amended: when execute_command obtained a command identifier, every way
\* out of its try statement (a response of any status, a timeout, peer-absent,
\* parse or correlation fault, an exception of format_response, an interrupt)
\* runs cleanup_response_file for that identifier, and when control returns
\* the response file exists only if the unlink failed, if the peer wrote the
\* file after cleanup_response_file was through with it, or if an interrupt
\* cut the finally clause short.
C3_CleanupRunsOnEveryExit ==
    \A c \in Ctl :
        ExecEnded(c) /\ GotId(c) =>
            /\ hist.interrupted # "finally" => "cleanup_exists" \in hist.touched
            /\ ResponseExists(c) =>
                  \/ hist.unlinkFailed
                  \/ hist.wroteAfterCleanup
                  \/ hist.interrupted = "finally"

\* the wait ended in a correlation fault with the response file on disk, and
\* the finally clause removed the file
C3_Witness ==
    \E c \in Ctl :
        /\ ExecEnded(c) /\ GotId(c)
        /\ result[c] = UceMismatch
        /\ "unlink" \in hist.touched
        /\ ~hist.unlinkFailed
        /\ ~ResponseExists(c)

\* a step of the controller, as opposed to one of the peer or of the clock
Moves(c) == pc'[c] # pc[c] \/ loc'[c] # loc[c] \/ result'[c] # result[c]
Unlinked(t) == responses[t].st = "present" /\ responses'[t].st = "absent"

\* C24: wait_for_response leaves the file system unchanged: no step of it
\* writes, renames or deletes the response file or any other file; on the
\* side of the controller a response file is removed only by
\* cleanup_response_file or by the sweep cleanup_old_responses.
C24_PollerOnlyReads ==
    [][\A c \in Ctl :
          Moves(c) =>
              /\ pc[c] \in WaitPcs =>
                    /\ <<dirKind, dirMode, gitignore>>' = <<dirKind, dirMode, gitignore>>
                    /\ files' = files
                    /\ responses' = responses
              /\ \A t \in IdTokens :
                    Unlinked(t) => pc[c] \in {"cr_unlink", "ec_old"}]_vars

\* wait_for_response read the response the peer had written and returned
\* it; the file is still there, as the peer wrote it
C24_Witness ==
    \E c \in Ctl :
        /\ InExec(c) /\ pc[c] = "ec_format"
        /\ loc[c].reads >= 1 /\ hist.writes = 1
        /\ ResponseExists(c)
        /\ ResponseFile(c) = result[c].resp

-----------------------------------------------------------------------------
(* Further properties of the poller *)

\* the last response the call parsed as an object has the identifier asked
\* for and a status other than running
ParsedTerminalMatch(c) ==
    /\ loc[c].parsed.st = "present"
    /\ loc[c].parsed.id = loc[c].command_id
    /\ loc[c].parsed.status # "running"

\* C11: wait_for_response returns a response if and only if it parsed, its
\* id matches and its status is not running; the response is returned from
\* the poll iteration that read it, and a running response is never returned.
C11_ReturnsExactlyTerminalMatches ==
    \A c \in Ctl :
        WaitEnded(c) =>
            /\ result[c].kind = "return" <=> ParsedTerminalMatch(c)
            /\ result[c].kind = "return" =>
                  /\ result[c].resp = loc[c].parsed
                  /\ loc[c].parsedAt = loc[c].attempts
                  /\ result[c].resp.status # "running"

\* a failure response was returned by a later poll than the one that read
\* the running response
C11_Witness ==
    \E c \in Ctl :
        /\ WaitEnded(c)
        /\ loc[c].reads >= 2 /\ loc[c].attempts >= 2
        /\ result[c].kind = "return"
        /\ result[c].resp.status = "failure"
        /\ result[c].resp.id = loc[c].command_id

\* C12: when the first read of a poll iteration yields malformed content and
\* the second read, after the 0.2 s grace period, yields a well-formed
\* terminal response with the matching id, wait_for_response returns that
\* response and raises no fault.
C12_RetryRecovers ==
    \A c \in Ctl :
        /\ WaitEnded(c)
        /\ loc[c].retry
        /\ loc[c].parsedAt = loc[c].attempts
        /\ ParsedTerminalMatch(c)
        => /\ result[c].kind = "return"
           /\ result[c].resp = loc[c].parsed
           /\ result[c].exc = ""

\* the file was malformed when the call began, the peer completed it during
\* the grace period, and the retry returned the success response
C12_Witness ==
    \E c \in Ctl :
        /\ WaitEnded(c)
        /\ hist.respAtCall.parse = "malformed"
        /\ hist.writes = 1
        /\ loc[c].retry /\ loc[c].reads = 2 /\ loc[c].attempts = 1
        /\ now - loc[c].start = ReadGrace + RetryGrace
        /\ result[c].kind = "return"
        /\ result[c].resp.status = "success"

\* C13: after a failed parse wait_for_response reads and parses the response
\* file once more in that poll iteration, and only once; when that second
\* parse fails as well it raises the parse fault at once: the second read is
\* the last of the iteration and the call polls no further.
C13_SecondParseFailureIsFatal ==
    \A c \in Ctl :
        loc[c].top = "wait_for_response" =>
            /\ pc[c] = "w_read2" => loc[c].iterReads = 1 /\ loc[c].seen = "malformed"
            /\ (loc[c].retry /\ loc[c].seen = "malformed") =>
                  /\ pc[c] = "done"
                  /\ result[c] = UceParse
                  /\ loc[c].iterReads = 2

\* the file stayed malformed: two reads in the only poll, then the parse fault
C13_Witness ==
    \E c \in Ctl :
        /\ WaitEnded(c)
        /\ hist.respAtCall.parse = "malformed" /\ hist.envOps = 0
        /\ loc[c].attempts = 1 /\ loc[c].reads = 2
        /\ now - loc[c].start = ReadGrace + RetryGrace
        /\ result[c] = UceParse

-----------------------------------------------------------------------------
(* Specification of the poller under a peer that never tires: one call of   *)
(* wait_for_response while the peer rewrites the response file as often as  *)
(* it likes.  The caller's process keeps running and the clock keeps going. *)

\* The peer rewrites response-<id>.json, any number of times.
PeerRewrites ==
    \E c \in Ctl :
        /\ pc[c] \in WaitPcs
        /\ PathIsDir(dirKind)
        /\ loc[c].command_id \in Uuid4Tokens
        /\ \E r \in RespContents(loc[c].command_id) :
              /\ r # [ResponseFile(c) EXCEPT !.mtime = 0]
              /\ responses' = [responses EXCEPT ![loc[c].command_id] = r]
        /\ hist' = [hist EXCEPT !.writes = 1,
                                !.wroteOther = @ \/ ~RunningFor(c, responses')]
        /\ UNCHANGED <<valVars, now, dirKind, dirMode, gitignore, files,
                       ctlVars, peerSeen>>

NextPollFair ==
    \/ \E c \in Ctl : WaitCall(c) \/ wait_for_response(c)
    \/ Tick
    \/ PeerRewrites

\* The shared directory exists; the response file is absent, or it holds a
\* running response or the beginning of one.
InitPollFair ==
    /\ ValIdle /\ CtlIdle /\ ObsInit
    /\ now = 0
    /\ dirKind = "dir"
    /\ dirMode = "0700"
    /\ gitignore = "has_rule"
    /\ files = [p \in Paths |-> AbsentFile]
    /\ \E r \in {NoResp, Resp("object", "u1", "running"),
                  Resp("malformed", "empty", "")} :
          responses = [t \in IdTokens |-> IF t = "u1" THEN r ELSE NoResp]

SpecPollFair ==
    /\ InitPollFair /\ [][NextPollFair]_vars
    /\ WF_vars(Tick)
    /\ \A c \in Ctl : WF_vars(wait_for_response(c))

\* the response file held a running response when the call began and the
\* peer wrote nothing but running responses
StayedRunning(c) ==
    /\ hist.respAtCall.st = "present" /\ hist.respAtCall.parse = "object"
    /\ hist.respAtCall.id = loc[c].command_id
    /\ hist.respAtCall.status = "running"
    /\ ~hist.wroteOther

\* C14: wait_for_response always terminates: whatever the peer does (never
\* responding, rewriting a running response for ever, alternating malformed
\* and running content), as long as time advances a call that has begun
\* comes to return a response or raise a fault; and a response that stays
\* at status running yields CommandTimeoutError.
C14_WaitTerminates ==
    /\ \A c \in Ctl : (pc[c] \in WaitPcs) ~> (pc[c] = "done")
    /\ [](\A c \in Ctl : WaitEnded(c) /\ StayedRunning(c)
                             => result[c] = Escaped("CommandTimeoutError"))

\* the peer rewrote the running response, the poller read it in every poll
\* of a one-second wait, and the call timed out
C14_Witness ==
    \E c \in Ctl :
        /\ WaitEnded(c) /\ StayedRunning(c)
        /\ hist.writes >= 1
        /\ args[c].timeout = 1 /\ loc[c].reads >= 4
        /\ result[c] = Escaped("CommandTimeoutError")

-----------------------------------------------------------------------------
(* Specification of the backoff: one call of wait_for_response with a       *)
(* timeout of up to MaxLongTimeout seconds, the peer writing the response   *)
(* file meanwhile.                                                          *)

NextBackoff ==
    \/ \E c \in Ctl : WaitCallLong(c) \/ wait_for_response(c)
    \/ Tick
    \/ PeerWriteResponse

SpecBackoff == InitPollFair /\ [][NextBackoff]_vars

\* min(MIN_SLEEP * SLEEP_MULTIPLIER^k, MAX_SLEEP)
BackoffAfter(k) == Min((MIN_SLEEP * 3^k) \div 2^k, MAX_SLEEP)
InWait(c) == loc[c].top = "wait_for_response" /\ loc[c].started

\* C15: within one call of wait_for_response the backoff interval starts at
\* 0.1 s and after the k-th backoff sleep equals min(0.1 * 1.5^k, 1.0): it
\* stays within [0.1, 1.0], never decreases and is at the cap from the sixth
\* sleep on; the sleep after a running response advances it by the same rule,
\* and the grace sleeps of 0.1 s and 0.2 s leave it alone.
C15_BackoffSchedule ==
    /\ [](\A c \in Ctl : InWait(c) =>
            /\ loc[c].sleep_time = BackoffAfter(loc[c].sleeps)
            /\ loc[c].sleep_time >= MIN_SLEEP /\ loc[c].sleep_time <= MAX_SLEEP
            /\ loc[c].sleeps >= 6 <=> loc[c].sleep_time = MAX_SLEEP)
    /\ [][\A c \in Ctl : InWait(c) =>
            /\ loc'[c].sleep_time >= loc[c].sleep_time
            /\ pc[c] \in {"w_running", "w_retry_running", "w_backoff"} /\ pc'[c] = "w_loop"
                  => loc'[c].sleeps = loc[c].sleeps + 1
            /\ pc'[c] \in {"w_read1", "w_read2"}
                  => loc'[c].sleep_time = loc[c].sleep_time]_vars

\* six sleeps, two of them after a running response, brought the interval
\* to the cap
C15_Witness ==
    \E c \in Ctl :
        /\ InWait(c)
        /\ loc[c].sleeps = 6
        /\ loc[c].sleep_time = MAX_SLEEP
        /\ loc[c].reads >= 2
        /\ loc[c].parsed.status = "running"

-----------------------------------------------------------------------------
(* Further properties of execute_command *)

BothSweeps == <<"cleanup_old_responses", "cleanup_stale_command_file">>
\* write_command has been entered
WriteBegun(c) == pc[c] \in WcPcs \/ loc[c].command_id # "empty"

\* C16: in every invocation of execute_command, whatever the cleanup
\* argument, cleanup_old_responses and then cleanup_stale_command_file have
\* both run to completion before write_command writes anything: until then
\* the directory is as the sweeps left it and no temp file has been opened.
C16_SweepsBeforeWrite ==
    \A c \in Ctl :
        InExec(c) =>
            /\ WriteBegun(c) => hist.swept = BothSweeps
            /\ hist.swept # BothSweeps =>
                  /\ dirKind = hist.dirAtCall
                  /\ loc[c].fd = NoIno
                  /\ cmdFile \in {hist.filesAtCall[CommandPath], AbsentFile}

\* called without the cleanup flag, the call removed the old response and
\* the stale temp file and then published its command
C16_Witness ==
    \E c \in Ctl :
        /\ InExec(c) /\ ~args[c].cleanup
        /\ pc[c] = "wc_return"
        /\ hist.swept = BothSweeps
        /\ hist.filesAtCall[temp_file].st # "absent"
        /\ responses["u0"].st = "absent"
        /\ cmdFile.data = Command(c)

\* the place of each statement of execute_command in the order sweep,
\* submit, poll, cleanup
Rank(label) ==
    CASE label = "idle" -> 0
      [] label = "ec_old" -> 1        [] label = "ec_stale" -> 2
      [] label = "wc_uuid" -> 3       [] label = "wc_symlink" -> 4
      [] label = "wc_mkdir" -> 5      [] label = "wc_gitignore" -> 6
      [] label = "wc_open" -> 7       [] label = "wc_write" -> 8
      [] label = "wc_chmod" -> 9      [] label = "wc_replace" -> 10
      [] label \in {"wc_except", "wc_return"} -> 11
      [] label \in WaitPcs -> 12      [] label = "ec_format" -> 13
      [] label = "cr_validate" -> 14  [] label = "cr_exists" -> 15
      [] label = "cr_unlink" -> 16    [] label = "ec_return" -> 17
      [] label = "done" -> 18
WriteFaults == {"Security error: .unity-bridge cannot be a symlink",
                "Failed to create Unity directory",
                "Failed to write command file"}
\* write_command raised
WriteRaised(c) ==
    /\ ExecEnded(c) /\ ~GotId(c)
    /\ hist.interrupted = "" /\ hist.swept = BothSweeps

\* C25: every invocation of execute_command follows the order sweep,
\* submit, poll, cleanup with no step repeated: it writes at most one
\* command and uses one identifier, it does not poll before the command has
\* been published, and when write_command fails (security or write fault)
\* it neither polls nor attempts to delete the response file, and the fault
\* reaches the caller as write_command raised it.
C25_SweepSubmitPollCleanup ==
    /\ [][\A c \in Ctl : (InExec(c) /\ pc'[c] # pc[c]) =>
            /\ Rank(pc'[c]) > Rank(pc[c]) \/ (pc[c] \in WaitPcs /\ pc'[c] \in WaitPcs)
            /\ loc[c].command_id # "empty" => loc'[c].command_id = loc[c].command_id
            /\ (pc'[c] \in WaitPcs /\ pc[c] \notin WaitPcs) =>
                  /\ cmdFile.st = "complete"
                  /\ cmdFile.data = [id |-> loc'[c].command_id,
                                     action |-> args[c].action,
                                     params |-> args[c].params]
            /\ files'[CommandPath] # files[CommandPath] =>
                  pc[c] \in {"ec_stale", "wc_replace"}]_vars
    /\ [](\A c \in Ctl : WriteRaised(c) =>
            /\ hist.touched = {}
            /\ ~loc[c].started
            /\ result[c].kind = "raise" /\ result[c].exc = "UnityCommandError"
            /\ result[c].msg \in WriteFaults)

\* one invocation swept, published its command, read the response in its
\* second poll, removed the response file and returned the formatted text
C25_Witness ==
    \E c \in Ctl :
        /\ ExecEnded(c) /\ GotId(c)
        /\ hist.swept = BothSweeps
        /\ loc[c].attempts = 2 /\ loc[c].reads = 1
        /\ "unlink" \in hist.touched /\ ~ResponseExists(c)
        /\ result[c].kind = "return" /\ result[c].msg = "formatted"
        /\ cmdFile.data.id = loc[c].ec_command_id

-----------------------------------------------------------------------------
(* Specification of the sweeps: one call of cleanup_old_responses or of     *)
(* cleanup_stale_command_file on a shared directory that is absent or holds *)
(* files of any age around the two thresholds.                              *)

Ages == {0, TicksPerSecond, TicksPerSecond + 1, Hour, Hour + 1}

InitSweep ==
    /\ ValIdle /\ CtlIdle /\ ObsInit
    /\ now = 0
    /\ dirKind \in {"absent", "dir"}
    /\ dirMode = (IF dirKind = "dir" THEN "0700" ELSE "")
    /\ gitignore = "has_rule"
    /\ \E fc \in {AbsentFile} \cup {Aged(OldFile, a) : a \in Ages},
          ft \in {AbsentFile} \cup {Aged(StaleTemp, a) : a \in Ages} :
          files = [p \in Paths |->
                      IF dirKind # "dir" THEN AbsentFile
                      ELSE IF p = CommandPath THEN fc ELSE ft]
    /\ \E r0 \in {NoResp} \cup {Aged(Resp("object", "u0", "success"), a) : a \in Ages},
          r1 \in {NoResp} \cup {Aged(Resp("object", "u1", "running"), a) : a \in Ages} :
          responses = [t \in IdTokens |->
                          IF dirKind # "dir" THEN NoResp
                          ELSE IF t = "u0" THEN r0
                          ELSE IF t = "u1" THEN r1 ELSE NoResp]

NextSweep ==
    \E c \in Ctl : OldCall(c) \/ EcOld(c) \/ StaleCall(c) \/ EcStale(c)

SpecSweep == InitSweep /\ [][NextSweep]_vars

-----------------------------------------------------------------------------
(* Properties of the sweeps *)

OldEnded(c) == pc[c] = "done" /\ loc[c].top = "cleanup_old_responses"
StaleEnded(c) == pc[c] = "done" /\ loc[c].top = "cleanup_stale_command_file"
\* the file existed when the call began and its age then exceeded the limit
OlderThan(f, limit) == f.st # "absent" /\ now - f.mtime > limit

\* C17 as the specification states it: cleanup_old_responses(max_age)
\* deletes every file matching response-*.json or *.tmp whose age is
\* strictly greater than max_age and retains every matching file whose age
\* is at most max_age and every other file, command.json among them; when
\* the shared directory does not exist it does nothing and raises nothing.
C17_DeletesExactlyTheOld ==
    \A c \in Ctl :
        OldEnded(c) =>
            /\ result[c].kind = "return"
            /\ dirKind = hist.dirAtCall
            /\ \A t \in IdTokens :
                  responses[t] = IF OlderThan(hist.responsesAtCall[t],
                                              args[c].max_age_hours * Hour)
                                 THEN NoResp ELSE hist.responsesAtCall[t]
            /\ files[temp_file] = IF OlderThan(hist.filesAtCall[temp_file],
                                               args[c].max_age_hours * Hour)
                                  THEN AbsentFile ELSE hist.filesAtCall[temp_file]
            /\ files[CommandPath] = hist.filesAtCall[CommandPath]

\* C17, amended: cleanup_old_responses(max_age) deletes every file matching
\* response-*.json or *.tmp whose age is strictly greater than max_age,
\* except those whose unlink fails, which it passes over and leaves as they
\* are; it retains every matching file no older than max_age and every other
\* file, command.json among them; it never raises, and does nothing when the
\* shared directory does not exist.
C17_DeletesTheOldItCanUnlink ==
    \A c \in Ctl :
        OldEnded(c) =>
            /\ result[c].kind = "return"
            /\ dirKind = hist.dirAtCall
            /\ \A t \in IdTokens :
                  responses[t] = IF /\ OlderThan(hist.responsesAtCall[t],
                                                 args[c].max_age_hours * Hour)
                                    /\ t \notin hist.unlinkErrors
                                 THEN NoResp ELSE hist.responsesAtCall[t]
            /\ files[temp_file] = IF /\ OlderThan(hist.filesAtCall[temp_file],
                                                  args[c].max_age_hours * Hour)
                                     /\ temp_file \notin hist.unlinkErrors
                                  THEN AbsentFile ELSE hist.filesAtCall[temp_file]
            /\ files[CommandPath] = hist.filesAtCall[CommandPath]
            /\ hist.unlinkErrors \subseteq
                  {t \in IdTokens : OlderThan(hist.responsesAtCall[t],
                                              args[c].max_age_hours * Hour)}
                  \cup {temp_file}

\* with the default limit, a response and a temp file one tick older than an
\* hour were deleted, a response exactly an hour old and a command.json older
\* than an hour were retained
C17_Witness ==
    \E c \in Ctl :
        /\ OldEnded(c) /\ args[c].max_age_hours = 1
        /\ hist.responsesAtCall["u0"].st = "present"
        /\ now - hist.responsesAtCall["u0"].mtime = Hour + 1
        /\ responses["u0"] = NoResp
        /\ hist.filesAtCall[temp_file].st # "absent"
        /\ now - hist.filesAtCall[temp_file].mtime = Hour + 1
        /\ files[temp_file] = AbsentFile
        /\ responses["u1"].st = "present" /\ now - responses["u1"].mtime = Hour
        /\ cmdFile.st # "absent" /\ now - cmdFile.mtime = Hour + 1

\* C18 as the specification states it: cleanup_stale_command_file(threshold)
\* deletes command.json if and only if it exists and its age is strictly
\* greater than threshold; a command file no older than the threshold is
\* kept, a missing file is a no-op, and no other file is touched.
C18_DeletesExactlyTheStaleCommand ==
    \A c \in Ctl :
        StaleEnded(c) =>
            /\ result[c].kind = "return"
            /\ dirKind = hist.dirAtCall
            /\ cmdFile = IF OlderThan(hist.filesAtCall[CommandPath],
                                      args[c].timeout * TicksPerSecond)
                         THEN AbsentFile ELSE hist.filesAtCall[CommandPath]
            /\ files[temp_file] = hist.filesAtCall[temp_file]
            /\ responses = hist.responsesAtCall

\* C18, amended: cleanup_stale_command_file(threshold) deletes command.json
\* only if it exists and its age is strictly greater than threshold, and
\* then always unless the unlink fails, which it passes over; a command file
\* no older than the threshold is kept, a missing file is a no-op, no other
\* file is touched and nothing is raised.
C18_DeletesTheStaleCommandItCanUnlink ==
    \A c \in Ctl :
        StaleEnded(c) =>
            /\ result[c].kind = "return"
            /\ dirKind = hist.dirAtCall
            /\ cmdFile = IF /\ OlderThan(hist.filesAtCall[CommandPath],
                                         args[c].timeout * TicksPerSecond)
                            /\ hist.unlinkErrors = {}
                         THEN AbsentFile ELSE hist.filesAtCall[CommandPath]
            /\ hist.unlinkErrors # {} =>
                  OlderThan(hist.filesAtCall[CommandPath],
                            args[c].timeout * TicksPerSecond)
            /\ files[temp_file] = hist.filesAtCall[temp_file]
            /\ responses = hist.responsesAtCall

\* with a threshold of one second, a command.json one tick older than that
\* was deleted next to a temp file and a response older than an hour, which
\* were kept
C18_Witness ==
    \E c \in Ctl :
        /\ StaleEnded(c) /\ args[c].timeout = 1
        /\ hist.filesAtCall[CommandPath].st # "absent"
        /\ now - hist.filesAtCall[CommandPath].mtime = TicksPerSecond + 1
        /\ cmdFile = AbsentFile
        /\ files[temp_file].st # "absent" /\ now - files[temp_file].mtime = Hour + 1
        /\ responses["u0"].st = "present" /\ now - responses["u0"].mtime = Hour + 1

\* C27: when deleting or inspecting one stale file fails during
\* cleanup_old_responses, the sweep does not raise and still deletes every
\* other file older than max_age; and a failure inside
\* cleanup_stale_command_file does not raise to the caller either.
C27_FailureDoesNotStopSweep ==
    \A c \in Ctl :
        /\ OldEnded(c) =>
              /\ result[c].kind = "return" /\ result[c].exc = ""
              /\ \A t \in IdTokens \ hist.unlinkErrors :
                    OlderThan(hist.responsesAtCall[t], args[c].max_age_hours * Hour)
                        => responses[t].st = "absent"
              /\ (temp_file \notin hist.unlinkErrors
                     /\ OlderThan(hist.filesAtCall[temp_file],
                                  args[c].max_age_hours * Hour))
                    => files[temp_file].st = "absent"
        /\ StaleEnded(c) => result[c].kind = "return" /\ result[c].exc = ""

\* the unlink of one old response failed; the other old response and the
\* old temp file were deleted and the sweep returned
C27_Witness ==
    \E c \in Ctl :
        /\ OldEnded(c)
        /\ hist.unlinkErrors = {"u0"}
        /\ responses["u0"] = hist.responsesAtCall["u0"]
        /\ OlderThan(hist.responsesAtCall["u1"], args[c].max_age_hours * Hour)
        /\ responses["u1"].st = "absent"
        /\ OlderThan(hist.filesAtCall[temp_file], args[c].max_age_hours * Hour)
        /\ files[temp_file].st = "absent"
        /\ result[c].kind = "return"

-----------------------------------------------------------------------------
(* The stale command *)

\* C19: a command that was submitted while the peer was down and whose
\* invocation of execute_command has ended with a timeout is never processed
\* by the peer afterwards: a peer that starts later does not find that
\* command in command.json.
C19_TimedOutCommandIsNeverFound ==
    \A c \in Ctl :
        /\ ExecEnded(c) /\ GotId(c)
        /\ hist.envOps = 0
        /\ result[c] = Escaped("CommandTimeoutError")
        => ~(peerSeen.st = "complete" /\ peerSeen.data.id = loc[c].ec_command_id)

-----------------------------------------------------------------------------
(* Failure of the write *)

\* json.dumps, the write of the temp file, its chmod or the rename failed
WriteFailed(c) == loc[c].top = "write_command" /\ loc[c].err # ""

\* C20: when writing the temp file, setting its permissions or renaming it
\* onto command.json fails, write_command raises the write fault
\* (UnityCommandError "Failed to write command file") carrying the cause, the
\* temp file no longer exists when its removal succeeds, and command.json is
\* exactly as it was before the call: absent, or the complete previous
\* command.
C20_FailedWriteLeavesCommandFile ==
    \A c \in Ctl :
        /\ WriteFailed(c) => pc[c] \in {"wc_except", "done"}
        /\ WriteFailed(c) /\ pc[c] = "done" =>
              /\ result[c] = WriteFault(loc[c].err)
              /\ ~hist.unlinkFailed => tmpFile = AbsentFile
              /\ cmdFile = hist.filesAtCall[CommandPath]
              /\ cmdFile.st \in {"absent", "complete"}

\* the temp file was written, the step after failed, the temp file was
\* removed and command.json still holds the previous command
C20_Witness ==
    \E c \in Ctl :
        /\ WriteFailed(c) /\ pc[c] = "done"
        /\ loc[c].fd # NoIno
        /\ result[c].cause = "OSError"
        /\ tmpFile = AbsentFile
        /\ cmdFile = OldFile

-----------------------------------------------------------------------------
(* Specification of the entry point: one run of main with a Unity command  *)
(* on a shared directory that is absent or present, the peer answering,    *)
(* the shared directory going away and the user interrupting meanwhile.    *)

InitMain ==
    /\ ValIdle /\ CtlIdle /\ ObsInit
    /\ now = 0
    /\ dirKind \in {"absent", "dir"}
    /\ dirMode = (IF dirKind = "dir" THEN "0700" ELSE "")
    /\ gitignore = "has_rule"
    /\ files = [p \in Paths |-> AbsentFile]
    /\ responses = [t \in IdTokens |-> NoResp]

NextMain ==
    \/ \E c \in Ctl : MainCall(c) \/ main(c) \/ Interrupt(c)
    \/ Tick
    \/ PeerWriteResponse \/ DirRemoved

SpecMain == InitMain /\ [][NextMain]_vars

-----------------------------------------------------------------------------
(* Properties of the entry point *)

MainEnded(c) == pc[c] = "exited"
\* main called execute_command itself, which has ended
RanExec(c) == MainEnded(c) /\ loc[c].caller = "main"
ExecRaised(c, exc) == result[c].kind = "raise" /\ result[c].exc = exc
UnexpectedExceptions == {"TypeError", "AttributeError", "FileNotFoundError"}

\* C22 as the specification states it: for the commands main runs through
\* execute_command the exit code is EXIT_TIMEOUT (2) if and only if
\* execute_command raised CommandTimeoutError, EXIT_ERROR (1) for the
\* peer-absent fault, every other UnityCommandError and every unexpected
\* exception, and EXIT_SUCCESS (0) only when execute_command returned a
\* formatted response.
C22_ExitCodeTellsTheOutcome ==
    \A c \in Ctl :
        MainEnded(c) /\ args[c].argv.command # "health-check" =>
            /\ loc[c].exit = 2 <=>
                  (RanExec(c) /\ ExecRaised(c, "CommandTimeoutError"))
            /\ (RanExec(c) /\ result[c].kind = "raise"
                   /\ result[c].exc \in {"UnityNotRunningError", "UnityCommandError"}
                                         \cup UnexpectedExceptions)
                  => loc[c].exit = 1
            /\ loc[c].exit = 0 =>
                  RanExec(c) /\ result[c].kind = "return" /\ result[c].msg = "formatted"

\* C22, amended: whenever main has accepted the arguments and called
\* execute_command, the exit code is 2 if and only if execute_command raised
\* CommandTimeoutError, 1 for the peer-absent fault, every other
\* UnityCommandError and every unexpected exception, and 0 only when
\* execute_command returned a formatted response.  (A rejected argument ends
\* the process with status 2 as well, without execute_command being called.)
C22_ExitCodeOfAcceptedRun ==
    \A c \in Ctl :
        /\ RanExec(c) =>
              /\ loc[c].exit = 2 <=> ExecRaised(c, "CommandTimeoutError")
              /\ (result[c].kind = "raise"
                     /\ result[c].exc \in {"UnityNotRunningError", "UnityCommandError"}
                                           \cup UnexpectedExceptions)
                    => loc[c].exit = 1
              /\ loc[c].exit = 0 =>
                    result[c].kind = "return" /\ result[c].msg = "formatted"
        /\ (MainEnded(c) /\ args[c].argv.command # "health-check" /\ ~RanExec(c))
              => loc[c].exit = 2

\* compile --timeout 1 found the directory and no response within a second
C22_Witness ==
    \E c \in Ctl :
        /\ RanExec(c)
        /\ args[c].argv = Argv("compile", <<"1">>, NoLimit)
        /\ hist.envOps = 0 /\ hist.interrupted = ""
        /\ now - loc[c].start >= TicksPerSecond
        /\ ExecRaised(c, "CommandTimeoutError")
        /\ loc[c].exit = 2

\* C23: for every command of main that polls the peer (run-tests, compile,
\* refresh, get-status, get-console-logs, play, pause, step and
\* health-check), a KeyboardInterrupt arriving during polling is caught: main
\* returns an exit code and the interrupt does not leave main as an
\* unhandled exception.
C23_InterruptIsCaught ==
    \A c \in Ctl :
        MainEnded(c) /\ hist.interrupted = "poll" =>
            /\ loc[c].exit \in {EXIT_SUCCESS, EXIT_ERROR, EXIT_TIMEOUT}
            /\ loc[c].escaped = ""

\* main called execute_health_check, which has ended
HealthEnded(c) ==
    /\ MainEnded(c)
    /\ args[c].argv.command = "health-check"
    /\ ~(loc[c].exit = 2 /\ loc[c].caller = "")
\* the timeout main passes to execute_health_check
HealthArg(c) == int(args[c].argv.timeout)

\* C29: execute_health_check returns EXIT_ERROR without creating the shared
\* directory or writing any command when the shared directory does not
\* exist; otherwise it runs one get-status command with timeout
\* min(timeout, 5) and returns EXIT_SUCCESS when execute_command returns the
\* response, EXIT_ERROR on the peer-absent fault and EXIT_TIMEOUT on the
\* timeout fault.
C29_HealthCheckOutcome ==
    \A c \in Ctl :
        HealthEnded(c) =>
            IF ~PathExists(hist.dirAtCall)
            THEN /\ loc[c].exit = 1
                 /\ loc[c].caller = "" /\ loc[c].command_id = "empty"
                 /\ dirKind = hist.dirAtCall
                 /\ files = hist.filesAtCall
            ELSE /\ loc[c].caller = "execute_health_check"
                 /\ args[c].action = "get-status" /\ args[c].params = "{}"
                 /\ args[c].timeout = (IF HealthArg(c) < 5 THEN HealthArg(c) ELSE 5)
                 /\ Len(hist.issued) <= 1
                 /\ result[c].kind = "return" => loc[c].exit = 0
                 /\ ExecRaised(c, "UnityNotRunningError") => loc[c].exit = 1
                 /\ ExecRaised(c, "CommandTimeoutError") => loc[c].exit = 2

\* health-check --timeout 6 found the directory, wrote a get-status command
\* and, no response coming, timed out after five seconds
C29_Witness ==
    \E c \in Ctl :
        /\ HealthEnded(c)
        /\ HealthArg(c) = 6
        /\ hist.envOps = 0 /\ hist.interrupted = ""
        /\ cmdFile.data.action = "get-status"
        /\ now - loc[c].start >= 5 * TicksPerSecond
        /\ now - loc[c].start < 6 * TicksPerSecond
        /\ ExecRaised(c, "CommandTimeoutError")
        /\ loc[c].exit = 2

-----------------------------------------------------------------------------
(* Identifiers of successive calls *)

\* C26: across any sequence of calls of write_command, repeated calls with
\* the same action and params among them, no two calls return the same
\* identifier.
C26_NoIdentifierTwice ==
    /\ \A i, j \in DOMAIN hist.issued :
          i # j => IdText(hist.issued[i]) # IdText(hist.issued[j])
    /\ \A c \in Ctl :
          WriteReturned(c) => result[c].id = hist.issued[Len(hist.issued)]

\* two calls in a row with the same action and params returned, each with
\* its own identifier, and command.json holds the command of the second
C26_Witness ==
    \E c \in Ctl :
        /\ WriteReturned(c)
        /\ Len(hist.issued) = 2
        /\ hist.filesAtCall[CommandPath].st = "complete"
        /\ hist.filesAtCall[CommandPath].data.id = hist.issued[1]
        /\ hist.filesAtCall[CommandPath].data.action = args[c].action
        /\ hist.filesAtCall[CommandPath].data.params = args[c].params
        /\ cmdFile.data.id = hist.issued[2]

-----------------------------------------------------------------------------
(* The notice about .gitignore *)

Unignored == gitignore # "has_rule"
Noticed(c) == loc[c].notice # ""

\* C28 as the specification states it: write_command emits the notice, on
\* stderr only, if and only if the shared directory did not exist before the
\* call and .gitignore does not contain ".unity-bridge" (or is missing or
\* unreadable); when the directory already existed no notice is emitted, and
\* in every case the command is still written.
C28_NoticeIffNewAndUnignored ==
    \A c \in Ctl :
        WriteEnded(c) =>
            /\ Noticed(c) <=> (~PathExists(hist.dirAtCall) /\ Unignored)
            /\ Noticed(c) => loc[c].notice = "stderr"
            /\ PathExists(hist.dirAtCall) => ~Noticed(c)
            /\ (Noticed(c) \/ PathExists(hist.dirAtCall)) =>
                  result[c].kind = "return" /\ cmdFile.data = Command(c)

\* the call found no directory and created one: mkdir and chmod succeeded
Created(c) ==
    /\ ~PathExists(hist.dirAtCall)
    /\ result[c].msg # "Failed to create Unity directory"

\* C28, amended: write_command emits the notice, on stderr only, if and only
\* if the shared directory did not exist before the call, the call has
\* created it and set its mode without a fault, and .gitignore does not
\* contain ".unity-bridge" (or is missing or unreadable); when the directory
\* already existed no notice is emitted; the notice stops nothing: with or
\* without it the call goes on to write the command, and the command is
\* written unless that write fails.
C28_NoticeIffCreatedAndUnignored ==
    \A c \in Ctl :
        WriteEnded(c) =>
            /\ Noticed(c) <=> (Created(c) /\ Unignored)
            /\ Noticed(c) => loc[c].notice = "stderr"
            /\ PathExists(hist.dirAtCall) => ~Noticed(c)
            /\ Created(c) =>
                  \/ result[c].kind = "return" /\ cmdFile.data = Command(c)
                  \/ result[c] = WriteFault(loc[c].err) /\ loc[c].err # ""

\* the directory was created by the call, .gitignore could not be read, the
\* notice went to stderr and the command was written
C28_Witness ==
    \E c \in Ctl :
        /\ WriteReturned(c)
        /\ hist.dirAtCall = "absent" /\ dirKind = "dir"
        /\ gitignore = "unreadable"
        /\ loc[c].notice = "stderr"
        /\ cmdFile.data = Command(c)

-----------------------------------------------------------------------------
(* Permissions *)

\* command.json holds a command that write_command published
Published == cmdFile.st # "absent" /\ cmdFile.data.id \in Uuid4Tokens

\* C21: after every write_command that returns, the shared directory has
\* mode 0700 and command.json has mode 0600, whatever the mode of the
\* directory was before and whether or not it existed; the temp file has
\* mode 0600 before it is renamed, so command.json as write_command
\* publishes it is never seen with another mode.
C21_OwnerOnlyModes ==
    /\ \A c \in Ctl :
          /\ WriteReturned(c) => dirMode = "0700" /\ cmdFile.mode = "0600"
          /\ pc[c] = "wc_replace" => tmpFile.mode = "0600"
    /\ Published => cmdFile.mode = "0600"

\* the directory had mode 0755 and held a temp file of mode 0644 when the
\* call began; the call returned
C21_Witness ==
    \E c \in Ctl :
        /\ WriteReturned(c)
        /\ hist.dirAtCall = "dir" /\ hist.modeAtCall = "0755"
        /\ hist.filesAtCall[temp_file].st # "absent"
        /\ hist.filesAtCall[temp_file].mode = "0644"
        /\ dirMode = "0700" /\ cmdFile.mode = "0600"

-----------------------------------------------------------------------------
(* Validation of the command line *)

\* what the command line asks for is no positive timeout, or a limit
\* outside [1, 1000]
BadTimeout(a) == ~IsInt(a.timeout) \/ int(a.timeout) < 1
BadLimit(a) ==
    Len(a.limit) > 0 /\ (~IsInt(a.limit[1]) \/ int(a.limit[1]) < 1
                                            \/ int(a.limit[1]) > 1000)
\* main has got past parse_args and the validations
Parsed(c) == loc[c].top \in {"main", "execute_command"} /\ pc[c] # "m_parse"
\* parser.error ended the process
Refused(c) == pc[c] = "exited" /\ loc[c].exit = 2 /\ loc[c].caller = ""
\* the limits main accepts, as they are to appear in params
LimitAsString(l) ==
    CASE l = <<"1">> -> "{limit: '1'}"
      [] l = <<"0", "1">> -> "{limit: '1'}"
      [] l = <<"1", "0", "0", "0">> -> "{limit: '1000'}"

-----------------------------------------------------------------------------
(* The shared directory as a symbolic link *)

\* C32: while the path of the shared directory is a symbolic link, no step
\* of execute_command writes or deletes a file under the target of the
\* link: neither sweep deletes one and write_command writes none.
C32_NoMutationThroughSymlink ==
    [][\A c \in Ctl :
          (InExec(c) /\ PathIsSymlink(dirKind) /\ Moves(c))
              => UNCHANGED <<files, responses>>]_vars

-----------------------------------------------------------------------------
(* The faults of the poller *)

\* UnityCommandError and its subclasses
UnityCommandErrors ==
    {"UnityCommandError", "CommandTimeoutError", "UnityNotRunningError"}

\* C34: every failure of wait_for_response is a UnityCommandError or one of
\* its subclasses, whatever the response file holds and whether or not it is
\* still there when it is read, at the first read and at the retry.
C34_EveryFaultIsUnityCommandError ==
    \A c \in Ctl :
        (WaitEnded(c) /\ result[c].kind = "raise")
            => result[c].exc \in UnityCommandErrors

-----------------------------------------------------------------------------
(* Specification of the verbose poller: one call of wait_for_response with  *)
(* or without verbose, the peer writing progress updates and responses.     *)

InitVerbose ==
    /\ ValIdle /\ CtlIdle /\ ObsInit
    /\ now = 0
    /\ dirKind = "dir"
    /\ dirMode = "0700"
    /\ gitignore = "has_rule"
    /\ files = [p \in Paths |-> AbsentFile]
    /\ \E r \in {NoResp} \cup {RunningWith("u1", p) : p \in Progresses} :
          responses = [t \in IdTokens |-> IF t = "u1" THEN r ELSE NoResp]

NextVerbose ==
    \/ \E c \in Ctl : WaitCallVerbose(c) \/ wait_for_response(c)
    \/ Tick
    \/ PeerWriteResponse \/ PeerWriteProgress

SpecVerbose == InitVerbose /\ [][NextVerbose]_vars

\* C35: the verbose flag never changes the outcome of wait_for_response.
\* The flag is read in the first read only, after a running response with the
\* caller's identifier was parsed: whatever its progress field is, the call
\* does then what it does without verbose, it sleeps and polls on.
C35_VerboseChangesNothing ==
    [][\A c \in Ctl :
          (/\ pc[c] = "w_read1" /\ pc'[c] # "w_read1"
           /\ PathIsDir(dirKind) /\ RunningFor(c, responses))
              => pc'[c] = "w_running"]_vars

-----------------------------------------------------------------------------
(* The exit code of the health check and of a run that got its response *)

\* C36: whichever fault of the UnityCommandError family execute_command
\* raises during the health check (security, write, parse, correlation,
\* peer-absent, timeout), main returns EXIT_ERROR or EXIT_TIMEOUT and no
\* exception leaves main.
C36_HealthCheckMapsEveryFault ==
    \A c \in Ctl :
        (/\ MainEnded(c)
         /\ loc[c].caller = "execute_health_check"
         /\ result[c].kind = "raise"
         /\ result[c].exc \in UnityCommandErrors)
            => loc[c].exit \in {EXIT_ERROR, EXIT_TIMEOUT} /\ loc[c].escaped = ""

\* execute_command returned the formatted text of the response that
\* wait_for_response returned
GotFormatted(c) ==
    /\ MainEnded(c) /\ loc[c].caller \in {"main", "execute_health_check"}
    /\ result[c].kind = "return" /\ result[c].msg = "formatted"

\* C37: the exit code of main does not depend on the status the peer
\* reported: when wait_for_response returned a response and format_response
\* its text, main returns EXIT_SUCCESS, for the status success, failure and
\* error alike, and the response returned was not a running one.
C37_ExitCodeIgnoresStatus ==
    \A c \in Ctl :
        GotFormatted(c) =>
            /\ loc[c].exit = EXIT_SUCCESS /\ loc[c].escaped = ""
            /\ result[c].resp.status \in Statuses \ {"running"}

\* the peer reported a failure, main called execute_command itself and
\* returned 0
C37_Witness ==
    \E c \in Ctl :
        /\ GotFormatted(c) /\ loc[c].caller = "main"
        /\ result[c].resp.status = "failure"
        /\ result[c].resp.id = loc[c].command_id
        /\ loc[c].exit = 0

-----------------------------------------------------------------------------
(* The end of a poll inside execute_command *)

\* the poll loop of this call ran out: one of the two faults after it
RanOut(c) == result[c].kind = "raise"
             /\ result[c].exc \in {"CommandTimeoutError", "UnityNotRunningError"}
\* no response but running ones was written for this call
OnlyRunningSeen == ~hist.wroteOther

\* C38: within execute_command, after write_command succeeded, the fault of
\* a poll that ran out is UnityNotRunningError only if the shared directory
\* was removed during the poll; when nothing removed it, the poll that got
\* no terminal response ends in CommandTimeoutError, also when the
\* directory did not exist before the call: write_command created it.
C38_TimeoutUnlessDirectoryRemoved ==
    \A c \in Ctl :
        (InExec(c) /\ GotId(c)) =>
            /\ ExecRaised(c, "UnityNotRunningError") => hist.dirChanged
            /\ (RanOut(c) /\ ~hist.dirChanged) =>
                  /\ ExecRaised(c, "CommandTimeoutError")
                  /\ loc[c].dir_exists /\ PathIsDir(dirKind)
            /\ (ExecEnded(c) /\ ~hist.dirChanged /\ hist.interrupted = ""
                   /\ OnlyRunningSeen)
                  => ExecRaised(c, "CommandTimeoutError")

\* the shared directory did not exist before the call, nothing removed it,
\* the peer reported progress only, and the call timed out
C38_Witness ==
    \E c \in Ctl :
        /\ ExecEnded(c) /\ GotId(c)
        /\ hist.dirAtCall = "absent" /\ ~hist.dirChanged
        /\ hist.writes > 0 /\ OnlyRunningSeen
        /\ ExecRaised(c, "CommandTimeoutError")
        /\ Elapsed(c) >= args[c].timeout * TicksPerSecond

-----------------------------------------------------------------------------
(* Specification of successive invocations: execute_command called on a     *)
(* shared directory after an earlier invocation, whose command the peer has  *)
(* taken or not and may answer late, while it answers the running one.       *)

\* what the earlier invocation, which submitted the first identifier drawn,
\* left in command.json if it timed out (see C19)
EarlierCommand ==
    [OldFile EXCEPT !.data = [id |-> uuid4(1), action |-> "compile", params |-> "{}"],
                    !.mtime = 0 - TicksPerSecond]

InitSeq ==
    /\ ValIdle
    /\ pc = [c \in Controllers |-> "idle"]
    /\ args = [c \in Controllers |-> ArgsInit]
    /\ loc = [c \in Controllers |-> LocInit]
    /\ result = [c \in Controllers |-> NoResult]
    /\ calls = [c \in Controllers |-> 1]
    /\ peerSeen = AbsentFile
    /\ hist = [HistInit EXCEPT !.issued = <<uuid4(1)>>]
    /\ now = 0
    /\ dirKind \in {"absent", "dir"}
    /\ dirMode = (IF dirKind = "dir" THEN "0700" ELSE "")
    /\ gitignore = "has_rule"
    /\ \E f \in (IF dirKind = "dir" THEN {AbsentFile, EarlierCommand}
                 ELSE {AbsentFile}) :
          files = [p \in Paths |-> IF p = CommandPath THEN f ELSE AbsentFile]
    /\ responses = [t \in IdTokens |-> NoResp]

NextSeq ==
    \/ \E c \in Ctl : ExecAgain(c) \/ execute_command(c)
    \/ Tick
    \/ PeerWriteResponse \/ PeerWriteLate

SpecSeq == InitSeq /\ [][NextSeq]_vars

\* the identifiers submitted by the invocations before the running one
Earlier(c) ==
    {hist.issued[i] : i \in 1..(Len(hist.issued) - (IF GotId(c) THEN 1 ELSE 0))}

\* C39: responses never cross invocations.  Over any sequence of
\* invocations and whatever the peer writes, late answers to earlier
\* commands included, the response an invocation returns carries the
\* identifier this invocation submitted, which no earlier invocation
\* submitted, and the response file of another command is never read.
C39_ResponsesNeverCross ==
    \A c \in Ctl :
        InExec(c) =>
            /\ GotId(c) =>
                  /\ loc[c].ec_command_id = hist.issued[Len(hist.issued)]
                  /\ loc[c].ec_command_id \notin Earlier(c)
            /\ hist.readOf \subseteq {loc[c].ec_command_id}
            /\ loc[c].parsed # NoResp => loc[c].parsed.id \notin Earlier(c)
            /\ result[c].kind = "return" =>
                  /\ GotId(c)
                  /\ result[c].resp.id = loc[c].ec_command_id
                  /\ result[c].resp.id \notin Earlier(c)

\* the second invocation returned the response to its own command while the
\* late response to the first, which had timed out, lay in the directory
C39_Witness ==
    \E c \in Ctl :
        /\ ExecEnded(c) /\ calls[c] = 2
        /\ hist.filesAtCall[CommandPath] = EarlierCommand
        /\ Len(hist.issued) = 2 /\ hist.late = {hist.issued[1]}
        /\ result[c].kind = "return"
        /\ result[c].resp.id = hist.issued[2]
        /\ responses[hist.issued[1]].st = "present"

-----------------------------------------------------------------------------
(* The response that is deleted *)

\* a well-formed response with the caller's identifier and a terminal status
TerminalFor(c, r) ==
    /\ r.st = "present" /\ r.parse = "object"
    /\ r.id = loc[c].command_id /\ r.status \in Statuses \ {"running"}

\* C40: no terminal response is lost.  Whenever a step of execute_command
\* deletes a response file that holds a well-formed terminal response with
\* the matching identifier, wait_for_response has read a terminal response
\* with that identifier, which it returns as soon as it has parsed it.
C40_NoTerminalResponseLost ==
    [][\A c \in Ctl :
          (/\ InExec(c) /\ Moves(c)
           /\ loc[c].command_id \in IdTokens
           /\ TerminalFor(c, ResponseFile(c))
           /\ Unlinked(loc[c].command_id))
              => TerminalFor(c, loc[c].parsed)]_vars

-----------------------------------------------------------------------------
(* Specification of two writers: two processes call write_command once each *)
(* on the same shared directory, their steps interleaved, the peer reading. *)

InitTwo ==
    /\ ValIdle /\ CtlIdle /\ ObsInit
    /\ now = 0
    /\ dirKind \in {"absent", "dir"}
    /\ dirMode = (IF dirKind = "dir" THEN "0700" ELSE "")
    /\ gitignore \in {"has_rule", "no_rule"}
    /\ files = [p \in Paths |-> AbsentFile]
    /\ responses = [t \in IdTokens |-> NoResp]

NextTwo ==
    \/ \E c \in Controllers : WcCallTwo(c) \/ write_command(c)
    \/ PeerReadCommand

SpecTwo == InitTwo /\ [][NextTwo]_vars

\* C33: when two controllers run write_command concurrently on the same
\* shared directory, every call that returns an identifier has published
\* its own command: command.json has held a complete command with that
\* identifier (at the latest when the call returns); and command.json does
\* not hold the command of a call that raised a write fault.
C33_ConcurrentWritersPublishTheirOwn ==
    \A c \in Controllers :
        WriteEnded(c) =>
            /\ result[c].kind = "return" => result[c].id \in hist.published
            /\ (result[c].kind = "raise"
                   /\ result[c].msg = "Failed to write command file")
                  => ~(cmdFile.st # "absent" /\ cmdFile.data.id = loc[c].command_id)

-----------------------------------------------------------------------------
(* Specification of the removal of the skill: uninstall_skill called once  *)
(* on every kind of target.                                                *)

InitUninstall ==
    /\ idArg = << >>
    /\ vres = "none"
    /\ target_dir \in Targets
    /\ us = UsIdle
    /\ CtlIdle /\ FsEmpty /\ ObsInit

NextUninstall == UsCall \/ uninstall_skill

SpecUninstall == InitUninstall /\ [][NextUninstall]_vars

NotASkill(t) ==
    \/ t.kind = "file"
    \/ t.kind = "dir" /\ "SKILL.md" \notin t.entries
RemovableSkill(t) ==
    \/ t.kind = "symlink"
    \/ t.kind = "dir" /\ "SKILL.md" \in t.entries

\* C31: uninstall_skill never removes a target that is a real directory
\* lacking SKILL.md or a regular file: it returns EXIT_ERROR and leaves the
\* target untouched; it changes the target only when it is a symbolic link
\* or a directory containing SKILL.md; and when nothing is installed it
\* returns EXIT_SUCCESS without changing anything.
C31_UninstallRemovesOnlyASkill ==
    /\ us.pc # "idle" =>
          (target_dir # us.before => RemovableSkill(us.before))
    /\ us.pc = "us_done" =>
          /\ NotASkill(us.before) =>
                us.code = EXIT_ERROR /\ target_dir = us.before
          /\ us.before.kind = "absent" =>
                us.code = EXIT_SUCCESS /\ target_dir = us.before

C31_Witness ==
    /\ us.pc = "us_done"
    /\ us.before.kind = "dir"
    /\ us.before.entries = {"references", "notes.txt"}
    /\ us.code = EXIT_ERROR
    /\ target_dir = us.before

====
